---- MODULE Spec2Model ----
(***************************************************************************)
(* A model of the retrieval pipeline of rag-showroom.                      *)
(*                                                                         *)
(* Texts are sequences of one-character strings, so that the string        *)
(* operations the code relies on (split, join, replace, strip, lower,      *)
(* count) are modelled by what they do.  The Jaccard similarities and the  *)
(* thresholds are exact rationals [num, den]; the thresholds used are      *)
(* short decimals and the similarities are quotients of small integers,    *)
(* for which the comparison of the correctly rounded doubles agrees with   *)
(* the comparison of the rationals.  The cosine similarities and the       *)
(* rerank scores are doubles, computed with the rounding of IEEE 754.      *)
(***************************************************************************)
EXTENDS Integers, Sequences, FiniteSets, TLC

VARIABLES text, runs, demo_runs, sentences, demo_sentences, jaccard, cosine,
          documents, doc_embeddings, call, patterns, current_pattern

vars == <<text, runs, demo_runs, sentences, demo_sentences, jaccard, cosine,
          documents, doc_embeddings, call, patterns, current_pattern>>

\* the files of the scripts: the 'patterns' list of queue/patterns.json and
\* the content of outputs/current_pattern.json
queue_vars == <<patterns, current_pattern>>

NoFile == [status |-> "no file"]

\* no queue is being worked on
NoQueue ==
    /\ patterns = <<>>
    /\ current_pattern = NoFile

(***************************************************************************)
(* Bounds of the model.                                                    *)
(***************************************************************************)
MaxPieces == 3
MaxRuns == 2
MaxLen == 4
MaxWords == 3

(***************************************************************************)
(* Python string operations.                                               *)
(***************************************************************************)
IsSpace(c) == c \in {" ", "\t", "\n"}

UpperCase == <<"A", "B", "C", "D", "E", "F", "G", "H", "I", "J", "K", "L", "M",
               "N", "O", "P", "Q", "R", "S", "T", "U", "V", "W", "X", "Y", "Z">>
LowerCase == <<"a", "b", "c", "d", "e", "f", "g", "h", "i", "j", "k", "l", "m",
               "n", "o", "p", "q", "r", "s", "t", "u", "v", "w", "x", "y", "z">>

LowerChar(c) ==
    IF \E k \in 1..Len(UpperCase) : UpperCase[k] = c
    THEN LowerCase[CHOOSE k \in 1..Len(UpperCase) : UpperCase[k] = c]
    ELSE c

\* The one character whose lower-case form is two characters long: "U+0130"
\* stands for LATIN CAPITAL LETTER I WITH DOT ABOVE, whose str.lower() is
\* "i" followed by "U+0307", COMBINING DOT ABOVE
DottedCapitalI == "U+0130"
CombiningDot == "U+0307"

RECURSIVE LowerFrom(_, _)
LowerFrom(s, k) ==
    IF k > Len(s) THEN <<>>
    ELSE (IF s[k] = DottedCapitalI
          THEN <<"i", CombiningDot>>
          ELSE <<LowerChar(s[k])>>) \o LowerFrom(s, k + 1)

\* str.lower()
str_lower(s) ==
    IF \A k \in 1..Len(s) : s[k] # DottedCapitalI
    THEN [k \in 1..Len(s) |-> LowerChar(s[k])]
    ELSE LowerFrom(s, 1)

RECURSIVE SplitFrom(_, _, _)
SplitFrom(s, i, word) ==
    IF i > Len(s)
    THEN IF word = <<>> THEN <<>> ELSE <<word>>
    ELSE IF IsSpace(s[i])
         THEN (IF word = <<>> THEN <<>> ELSE <<word>>) \o SplitFrom(s, i + 1, <<>>)
         ELSE SplitFrom(s, i + 1, Append(word, s[i]))

\* str.split() without a separator: the words between whitespace runs
str_split(s) == SplitFrom(s, 1, <<>>)

RECURSIVE str_join(_, _)
\* sep.join(parts)
str_join(sep, parts) ==
    IF parts = <<>> THEN <<>>
    ELSE IF Len(parts) = 1 THEN parts[1]
    ELSE parts[1] \o sep \o str_join(sep, Tail(parts))

StartsWith(s, i, pat) ==
    /\ i + Len(pat) - 1 <= Len(s)
    /\ \A k \in 1..Len(pat) : s[i + k - 1] = pat[k]

RECURSIVE ReplaceFrom(_, _, _, _)
ReplaceFrom(s, i, old, new) ==
    IF i > Len(s) THEN <<>>
    ELSE IF StartsWith(s, i, old)
         THEN new \o ReplaceFrom(s, i + Len(old), old, new)
         ELSE <<s[i]>> \o ReplaceFrom(s, i + 1, old, new)

\* str.replace(old, new) for a non-empty old: leftmost non-overlapping matches
str_replace(s, old, new) == ReplaceFrom(s, 1, old, new)

RECURSIVE SplitSepFrom(_, _, _, _)
SplitSepFrom(s, i, sep, piece) ==
    IF i > Len(s) THEN <<piece>>
    ELSE IF StartsWith(s, i, sep)
         THEN <<piece>> \o SplitSepFrom(s, i + Len(sep), sep, <<>>)
         ELSE SplitSepFrom(s, i + 1, sep, Append(piece, s[i]))

\* str.split(sep): every fragment between separators, empty ones included
str_split_sep(s, sep) == SplitSepFrom(s, 1, sep, <<>>)

\* str.strip(): without leading and trailing whitespace
str_strip(s) ==
    LET nonspace == {k \in 1..Len(s) : ~IsSpace(s[k])}
    IN  IF nonspace = {} THEN <<>>
        ELSE LET first == CHOOSE k \in nonspace : \A m \in nonspace : k <= m
                 last  == CHOOSE k \in nonspace : \A m \in nonspace : k >= m
             IN  SubSeq(s, first, last)

RECURSIVE CountFrom(_, _, _)
CountFrom(s, i, sub) ==
    IF i > Len(s) THEN 0
    ELSE IF StartsWith(s, i, sub)
         THEN 1 + CountFrom(s, i + Len(sub), sub)
         ELSE CountFrom(s, i + 1, sub)

\* str.count(sub) for a non-empty sub: non-overlapping occurrences
str_count(s, sub) == CountFrom(s, 1, sub)

SeqToSet(s) == {s[k] : k \in 1..Len(s)}

SelectNonEmpty(parts) == SelectSeq(parts, LAMBDA p : p # <<>>)

(***************************************************************************)
(* Rationals standing for the floats of the code.                          *)
(***************************************************************************)
Rat(n, d) == [num |-> n, den |-> d]
RatGE(a, b) == a.num * b.den >= b.num * a.den
RatLT(a, b) == a.num * b.den < b.num * a.den
RatLE(a, b) == a.num * b.den <= b.num * a.den
RatEQ(a, b) == a.num * b.den = b.num * a.den

(***************************************************************************)
(* The doubles of the code.  A Python float is an IEEE 754 binary64 value; *)
(* every +, *, / and ** 0.5 rounds its exact result to the nearest double, *)
(* ties to even.  A non-negative double is kept as [m, e], standing for    *)
(* m * 2^e, where m is a natural number of exactly 53 bits, or as          *)
(* float_zero.  The values of the program are far from the overflow and    *)
(* the subnormal range.  Natural numbers wider than a machine integer are  *)
(* little-endian sequences of limbs below LimbBase with no leading zero    *)
(* limb; <<>> is 0.                                                        *)
(***************************************************************************)
LimbBits == 14
LimbBase == 16384
MantBits == 53

Limb(a, i) == IF i <= Len(a) THEN a[i] ELSE 0

RECURSIVE BigNorm(_)
BigNorm(a) ==
    IF a = <<>> THEN <<>>
    ELSE IF a[Len(a)] = 0 THEN BigNorm(SubSeq(a, 1, Len(a) - 1))
    ELSE a

RECURSIVE BigFromInt(_)
BigFromInt(n) ==
    IF n = 0 THEN <<>> ELSE <<n % LimbBase>> \o BigFromInt(n \div LimbBase)

RECURSIVE BigAddFrom(_, _, _, _)
BigAddFrom(a, b, i, carry) ==
    IF i > Len(a) /\ i > Len(b)
    THEN IF carry = 0 THEN <<>> ELSE <<carry>>
    ELSE LET s == Limb(a, i) + Limb(b, i) + carry
         IN  <<s % LimbBase>> \o BigAddFrom(a, b, i + 1, s \div LimbBase)

BigAdd(a, b) == BigAddFrom(a, b, 1, 0)

RECURSIVE BigSubFrom(_, _, _, _)
BigSubFrom(a, b, i, borrow) ==
    IF i > Len(a) THEN <<>>
    ELSE LET d == a[i] - Limb(b, i) - borrow
         IN  IF d < 0
             THEN <<d + LimbBase>> \o BigSubFrom(a, b, i + 1, 1)
             ELSE <<d>> \o BigSubFrom(a, b, i + 1, 0)

\* a - b for a >= b
BigSub(a, b) == BigNorm(BigSubFrom(a, b, 1, 0))

RECURSIVE BigCmpFrom(_, _, _)
BigCmpFrom(a, b, i) ==
    IF i = 0 THEN 0
    ELSE IF a[i] < b[i] THEN -1
    ELSE IF a[i] > b[i] THEN 1
    ELSE BigCmpFrom(a, b, i - 1)

\* -1, 0 or 1 as a < b, a = b or a > b
BigCmp(a, b) ==
    IF Len(a) < Len(b) THEN -1
    ELSE IF Len(a) > Len(b) THEN 1
    ELSE BigCmpFrom(a, b, Len(a))

RECURSIVE BigMulSmallFrom(_, _, _, _)
BigMulSmallFrom(a, k, i, carry) ==
    IF i > Len(a)
    THEN IF carry = 0 THEN <<>> ELSE <<carry>>
    ELSE LET p == a[i] * k + carry
         IN  <<p % LimbBase>> \o BigMulSmallFrom(a, k, i + 1, p \div LimbBase)

\* a * k for 0 <= k < LimbBase
BigMulSmall(a, k) == IF k = 0 THEN <<>> ELSE BigMulSmallFrom(a, k, 1, 0)

BigTimesBase(a) == IF a = <<>> THEN <<>> ELSE <<0>> \o a

RECURSIVE BigMulFrom(_, _, _)
BigMulFrom(a, b, j) ==
    IF j > Len(b) THEN <<>>
    ELSE BigAdd(BigMulSmall(a, b[j]), BigTimesBase(BigMulFrom(a, b, j + 1)))

BigMul(a, b) == BigMulFrom(a, b, 1)

RECURSIVE BitLenInt(_)
BitLenInt(v) == IF v = 0 THEN 0 ELSE 1 + BitLenInt(v \div 2)

BitLen(a) ==
    IF a = <<>> THEN 0 ELSE (Len(a) - 1) * LimbBits + BitLenInt(a[Len(a)])

\* a * 2^n
BigShl(a, n) ==
    IF a = <<>> THEN <<>>
    ELSE [i \in 1..(n \div LimbBits) |-> 0] \o BigMulSmall(a, 2 ^ (n % LimbBits))

\* a \div 2^n
BigShr(a, n) ==
    LET k == n \div LimbBits
        r == n % LimbBits
        b == SubSeq(a, k + 1, Len(a))
    IN  BigNorm([i \in 1..Len(b) |->
                    (b[i] \div (2 ^ r))
                  + (Limb(b, i + 1) % (2 ^ r)) * (2 ^ (LimbBits - r))])

RECURSIVE BigDivStep(_, _, _)
\* n more binary digits of a quotient by b, from the digits d.q found so far
\* and the remainder d.r < b
BigDivStep(b, n, d) ==
    IF n = 0 THEN d
    ELSE LET r2 == BigMulSmall(d.r, 2)
             q2 == BigMulSmall(d.q, 2)
         IN  IF BigCmp(r2, b) >= 0
             THEN BigDivStep(b, n - 1,
                             [q |-> BigAdd(q2, <<1>>), r |-> BigSub(r2, b)])
             ELSE BigDivStep(b, n - 1, [q |-> q2, r |-> r2])

\* quotient and remainder of a * 2^n by b, for 0 < a < 2 * b
BigDivShifted(a, n, b) ==
    IF BigCmp(a, b) >= 0
    THEN BigDivStep(b, n, [q |-> <<1>>, r |-> BigSub(a, b)])
    ELSE BigDivStep(b, n, [q |-> <<>>, r |-> a])

RECURSIVE BigSqrtStep(_, _, _)
BigSqrtStep(a, i, r) ==
    IF i < 0 THEN r
    ELSE LET c == BigAdd(r, BigShl(<<1>>, i))
         IN  IF BigCmp(BigMul(c, c), a) <= 0
             THEN BigSqrtStep(a, i - 1, c)
             ELSE BigSqrtStep(a, i - 1, r)

\* the integer part of the square root of a
BigSqrt(a) == BigSqrtStep(a, BitLen(a) \div 2, <<>>)

float_zero == [m |-> <<>>, e |-> 0]

\* The double nearest to n * 2^e, ties to even; with sticky the exact value
\* lies strictly between n * 2^e and (n + 1) * 2^e, and n has at least
\* MantBits + 2 bits.
float_round(n, e, sticky) ==
    IF n = <<>> THEN float_zero
    ELSE LET len == BitLen(n)
         IN  IF len <= MantBits
             THEN [m |-> BigShl(n, MantBits - len), e |-> e - (MantBits - len)]
             ELSE LET s == len - MantBits
                      q == BigShr(n, s)
                      rem == BigSub(n, BigShl(q, s))
                      half == BigCmp(rem, BigShl(<<1>>, s - 1))
                      up == \/ half > 0
                            \/ half = 0 /\ (sticky \/ q[1] % 2 = 1)
                      q1 == IF up THEN BigAdd(q, <<1>>) ELSE q
                  IN  IF BitLen(q1) > MantBits
                      THEN [m |-> BigShr(q1, 1), e |-> e + s + 1]
                      ELSE [m |-> q1, e |-> e + s]

\* float(n) of a natural number n, and n / 2^k for the exact dyadic values
float_int(n) == float_round(BigFromInt(n), 0, FALSE)
float_dyadic(n, k) == float_round(BigFromInt(n), 0 - k, FALSE)

\* x * y
float_mul(x, y) ==
    IF x = float_zero \/ y = float_zero THEN float_zero
    ELSE float_round(BigMul(x.m, y.m), x.e + y.e, FALSE)

\* x / y for y # 0
float_div(x, y) ==
    IF x = float_zero THEN float_zero
    ELSE LET d == BigDivShifted(x.m, MantBits + 3, y.m)
         IN  float_round(d.q, x.e - y.e - (MantBits + 3), d.r # <<>>)

\* x + y
float_add(x, y) ==
    IF x = float_zero THEN y
    ELSE IF y = float_zero THEN x
    ELSE LET hi == IF x.e >= y.e THEN x ELSE y
             lo == IF x.e >= y.e THEN y ELSE x
             d == hi.e - lo.e
         IN  IF d > MantBits + 3
             THEN float_round(BigShl(hi.m, 3), hi.e - 3, TRUE)
             ELSE float_round(BigAdd(BigShl(hi.m, d), lo.m), lo.e, FALSE)

\* x ** 0.5, the correctly rounded square root
float_sqrt(x) ==
    IF x = float_zero THEN float_zero
    ELSE LET odd == x.e % 2 = 1
             m2 == IF odd THEN BigMulSmall(x.m, 2) ELSE x.m
             e2 == IF odd THEN x.e - 1 ELSE x.e
             n == BigShl(m2, MantBits + 5)
             r == BigSqrt(n)
         IN  float_round(r, (e2 - (MantBits + 5)) \div 2, BigMul(r, r) # n)

\* -1, 0 or 1 as x < y, x = y or x > y
float_cmp(x, y) ==
    IF x = float_zero THEN (IF y = float_zero THEN 0 ELSE -1)
    ELSE IF y = float_zero THEN 1
    ELSE IF x.e < y.e THEN -1
    ELSE IF x.e > y.e THEN 1
    ELSE BigCmp(x.m, y.m)

float_le(x, y) == float_cmp(x, y) <= 0
float_lt(x, y) == float_cmp(x, y) < 0

(***************************************************************************)
(* patterns/01-semantic-chunking/example.py                                *)
(***************************************************************************)

\* SemanticChunker._split_sentences without the whitespace collapse and with
\* boundaries at a literal space only
_split_sentences_nocollapse(t) ==
    LET replaced == str_replace(str_replace(str_replace(t,
                        <<"!", " ">>, <<"!", "|">>),
                        <<"?", " ">>, <<"?", "|">>),
                        <<".", " ">>, <<".", "|">>)
        stripped == [k \in 1..Len(str_split_sep(replaced, <<"|">>)) |->
                        str_strip(str_split_sep(replaced, <<"|">>)[k])]
    IN  SelectNonEmpty(stripped)

\* SemanticChunker._split_sentences keeping the empty fragments
_split_sentences_nofilter(t) ==
    LET collapsed == str_join(<<" ">>, str_split(t))
        replaced == str_replace(str_replace(str_replace(collapsed,
                        <<"!", " ">>, <<"!", "|">>),
                        <<"?", " ">>, <<"?", "|">>),
                        <<".", " ">>, <<".", "|">>)
        parts == str_split_sep(replaced, <<"|">>)
    IN  [k \in 1..Len(parts) |-> str_strip(parts[k])]

\* SemanticChunker._split_sentences
_split_sentences(t) ==
    LET collapsed == str_join(<<" ">>, str_split(t))
        replaced == str_replace(str_replace(str_replace(collapsed,
                        <<"!", " ">>, <<"!", "|">>),
                        <<"?", " ">>, <<"?", "|">>),
                        <<".", " ">>, <<".", "|">>)
        parts == str_split_sep(replaced, <<"|">>)
        stripped == [k \in 1..Len(parts) |-> str_strip(parts[k])]
    IN  SelectNonEmpty(stripped)

\* Jaccard with the union taken as the sum of the two sizes
_calculate_similarity_sum(sent1, sent2) ==
    LET words1 == SeqToSet(str_split(str_lower(sent1)))
        words2 == SeqToSet(str_split(str_lower(sent2)))
    IN  IF words1 = {} \/ words2 = {}
        THEN Rat(0, 1)
        ELSE Rat(Cardinality(words1 \cap words2),
                 Cardinality(words1) + Cardinality(words2))

\* SemanticChunker._calculate_similarity: Jaccard similarity of the word sets
_calculate_similarity(sent1, sent2) ==
    LET words1 == SeqToSet(str_split(str_lower(sent1)))
        words2 == SeqToSet(str_split(str_lower(sent2)))
    IN  IF words1 = {} \/ words2 = {}
        THEN Rat(0, 1)
        ELSE Rat(Cardinality(words1 \cap words2),
                 Cardinality(words1 \cup words2))

RECURSIVE SumLen(_)
SumLen(parts) == IF parts = <<>> THEN 0 ELSE Len(parts[1]) + SumLen(Tail(parts))

\* Chunk(...) with char_count taken as the sum of the sentence lengths
ChunkNoSpaces(chunk_id, current_sentences, similarity) ==
    [id |-> chunk_id,
     text |-> str_join(<<" ">>, current_sentences),
     sentence_count |-> Len(current_sentences),
     char_count |-> SumLen(current_sentences),
     similarity_score |-> similarity]

\* the Chunk built from current_sentences
Chunk(chunk_id, current_sentences, similarity) ==
    LET chunk_text == str_join(<<" ">>, current_sentences)
    IN  [id |-> chunk_id,
         text |-> chunk_text,
         sentence_count |-> Len(current_sentences),
         char_count |-> Len(chunk_text),
         similarity_score |-> similarity]

\* the comparison inverted
MeetsThresholdInverted(similarity, similarity_threshold) ==
    RatLE(similarity, similarity_threshold)

\* `similarity >= self.similarity_threshold`
MeetsThreshold(similarity, similarity_threshold) ==
    RatGE(similarity, similarity_threshold)

\* the sentence of the current chunk a new sentence is compared with: the
\* first instead of the last
CompareSentenceFirst(current_sentences) == current_sentences[1]

\* `current_sentences[-1]`
CompareSentence(current_sentences) == current_sentences[Len(current_sentences)]

RECURSIVE chunk_loop(_, _, _, _, _, _)
\* the for loop of chunk_document and the final chunk; sentences[i] is the
\* next sentence (Python index i - 1)
chunk_loop(sents, i, chunks, current_sentences, chunk_id, similarity_threshold) ==
    IF i > Len(sents)
    THEN IF current_sentences # <<>>
         THEN Append(chunks, Chunk(chunk_id, current_sentences, Rat(1, 1)))
         ELSE chunks
    ELSE LET similarity == _calculate_similarity(
                               CompareSentence(current_sentences), sents[i])
         IN  IF MeetsThreshold(similarity, similarity_threshold)
             THEN chunk_loop(sents, i + 1, chunks,
                             Append(current_sentences, sents[i]),
                             chunk_id, similarity_threshold)
             ELSE chunk_loop(sents, i + 1,
                             Append(chunks, Chunk(chunk_id, current_sentences, similarity)),
                             <<sents[i]>>, chunk_id + 1, similarity_threshold)

\* chunk_document with the loop starting one sentence late
chunk_document_skip(t, similarity_threshold) ==
    LET sents == _split_sentences(t)
    IN  IF sents = <<>> THEN <<>>
        ELSE chunk_loop(sents, 3, <<>>, <<sents[1]>>, 0, similarity_threshold)

\* chunk_document with the ids counted from 1
chunk_document_from1(t, similarity_threshold) ==
    LET sents == _split_sentences(t)
    IN  IF sents = <<>> THEN <<>>
        ELSE chunk_loop(sents, 2, <<>>, <<sents[1]>>, 1, similarity_threshold)

\* SemanticChunker.chunk_document
chunk_document(t, similarity_threshold) ==
    LET sents == _split_sentences(t)
    IN  IF sents = <<>> THEN <<>>
        ELSE chunk_loop(sents, 2, <<>>, <<sents[1]>>, 0, similarity_threshold)

(***************************************************************************)
(* demos/semantic-chunking/demo.py                                         *)
(***************************************************************************)

\* SemanticChunker._split_sentences of the demo: no whitespace collapse, a
\* boundary only where the terminator is followed by a space
demo_split_sentences(t) ==
    LET replaced == str_replace(str_replace(str_replace(t,
                        <<"!", " ">>, <<"!", "|">>),
                        <<"?", " ">>, <<"?", "|">>),
                        <<".", " ">>, <<".", "|">>)
        parts == str_split_sep(replaced, <<"|">>)
        stripped == [k \in 1..Len(parts) |-> str_strip(parts[k])]
    IN  SelectNonEmpty(stripped)

\* SemanticChunker._calculate_similarity of the demo
demo_calculate_similarity(sent1, sent2) ==
    LET words1 == SeqToSet(str_split(str_lower(sent1)))
        words2 == SeqToSet(str_split(str_lower(sent2)))
    IN  IF words1 = {} \/ words2 = {}
        THEN Rat(0, 1)
        ELSE Rat(Cardinality(words1 \cap words2),
                 Cardinality(words1 \cup words2))

stopwords ==
    {<<"t", "h", "e">>,
     <<"a">>,
     <<"a", "n">>,
     <<"a", "n", "d">>,
     <<"o", "r">>,
     <<"b", "u", "t">>,
     <<"i", "n">>,
     <<"o", "n">>,
     <<"a", "t">>,
     <<"t", "o">>,
     <<"f", "o", "r">>,
     <<"o", "f">>,
     <<"w", "i", "t", "h">>,
     <<"i", "s">>,
     <<"a", "r", "e">>,
     <<"w", "a", "s">>,
     <<"w", "e", "r", "e">>}

\* str.strip(chars)
str_strip_chars(s, chars) ==
    LET keep == {k \in 1..Len(s) : s[k] \notin chars}
    IN  IF keep = {} THEN <<>>
        ELSE LET first == CHOOSE k \in keep : \A m \in keep : k <= m
                 last  == CHOOSE k \in keep : \A m \in keep : k >= m
             IN  SubSeq(s, first, last)

general == <<"g", "e", "n", "e", "r", "a", "l">>

\* SemanticChunker._extract_topic: the most frequent word that is longer than
\* 3 characters and no stopword; among equally frequent words the one counted
\* first (max over a dict in insertion order)
_extract_topic(sents) ==
    LET all_words == str_split(str_lower(str_join(<<" ">>, sents)))
        words == [k \in 1..Len(all_words) |->
                     str_strip_chars(all_words[k], {".", ",", "!", "?"})]
        counted == {k \in 1..Len(words) :
                       words[k] \notin stopwords /\ Len(words[k]) > 3}
        word_count(w) == Cardinality({k \in counted : words[k] = w})
        firstOf(w) == CHOOSE k \in counted :
                         words[k] = w /\ \A m \in counted : words[m] = w => k <= m
    IN  IF counted = {} THEN general
        ELSE words[CHOOSE k \in counted :
                      /\ k = firstOf(words[k])
                      /\ \A m \in counted :
                            \/ word_count(words[m]) < word_count(words[k])
                            \/ /\ word_count(words[m]) = word_count(words[k])
                               /\ k <= firstOf(words[m])]

\* the Chunk of the demo built from current_chunk_sentences
DemoChunk(chunk_id, current_chunk_sentences) ==
    [id |-> chunk_id,
     text |-> str_join(<<" ">>, current_chunk_sentences),
     sentences |-> current_chunk_sentences,
     topic |-> _extract_topic(current_chunk_sentences)]

RECURSIVE demo_chunk_loop(_, _, _, _, _, _)
\* the for loop of the demo's chunk_document and the final chunk
demo_chunk_loop(sents, i, chunks, current_chunk_sentences, chunk_id, similarity_threshold) ==
    IF i > Len(sents)
    THEN IF current_chunk_sentences # <<>>
         THEN Append(chunks, DemoChunk(chunk_id, current_chunk_sentences))
         ELSE chunks
    ELSE LET similarity == demo_calculate_similarity(
                 current_chunk_sentences[Len(current_chunk_sentences)], sents[i])
         IN  IF RatGE(similarity, similarity_threshold)
             THEN demo_chunk_loop(sents, i + 1, chunks,
                                  Append(current_chunk_sentences, sents[i]),
                                  chunk_id, similarity_threshold)
             ELSE demo_chunk_loop(sents, i + 1,
                                  Append(chunks, DemoChunk(chunk_id, current_chunk_sentences)),
                                  <<sents[i]>>, chunk_id + 1, similarity_threshold)

\* SemanticChunker.chunk_document of the demo; `sentences[0]` raises IndexError
\* on an empty sentence list
demo_chunk_document(t, similarity_threshold) ==
    LET sents == demo_split_sentences(t)
    IN  IF sents = <<>>
        THEN [status |-> "IndexError", chunks |-> <<>>]
        ELSE [status |-> "returned",
              chunks |-> demo_chunk_loop(sents, 2, <<>>, <<sents[1]>>, 0,
                                         similarity_threshold)]

(***************************************************************************)
(* patterns/03-reranking/example.py: SimpleEmbedding                       *)
(***************************************************************************)
keywords ==
    <<<<"r", "a", "g">>,
      <<"r", "e", "t", "r", "i", "e", "v", "a", "l">>,
      <<"s", "e", "m", "a", "n", "t", "i", "c">>,
      <<"v", "e", "c", "t", "o", "r">>,
      <<"e", "m", "b", "e", "d", "d", "i", "n", "g">>,
      <<"s", "e", "a", "r", "c", "h">>,
      <<"l", "l", "m">>,
      <<"c", "o", "n", "t", "e", "x", "t">>,
      <<"q", "u", "e", "r", "y">>,
      <<"r", "e", "r", "a", "n", "k">>>>

\* SimpleEmbedding.embed: min(count / 2.0, 1.0) for every keyword.  The
\* entries are kept in halves: 0, 1, 2 stand for 0.0, 0.5, 1.0.
embed(t) ==
    LET text_lower == str_lower(t)
    IN  [k \in 1..Len(keywords) |->
            IF str_count(text_lower, keywords[k]) >= 2
            THEN 2
            ELSE str_count(text_lower, keywords[k])]

RECURSIVE DotProduct(_, _, _)
\* sum(a * b for a, b in zip(emb1, emb2)), from position k on
DotProduct(emb1, emb2, k) ==
    IF k > Len(emb1) \/ k > Len(emb2) THEN 0
    ELSE emb1[k] * emb2[k] + DotProduct(emb1, emb2, k + 1)

\* sum(a * a for a in emb) ** 0.5 for every sum of squares, in quarters, of
\* an embedding: the square root is computed once for each sum
norm_of == [n \in 0..(4 * Len(keywords)) |-> float_sqrt(float_dyadic(n, 2))]

\* SimpleEmbedding.similarity: dot_product / (norm1 * norm2) in doubles, 0.0
\* when a norm is zero.  The sums of products of 0.0, 0.5 and 1.0 are exact;
\* they are kept in quarters next to the double the code returns.
similarity(emb1, emb2) ==
    LET dot == DotProduct(emb1, emb2, 1)
        norm1_sq == DotProduct(emb1, emb1, 1)
        norm2_sq == DotProduct(emb2, emb2, 1)
        dot_product == float_dyadic(dot, 2)
        norm1 == norm_of[norm1_sq]
        norm2 == norm_of[norm2_sq]
    IN  IF norm1 = float_zero \/ norm2 = float_zero
        THEN [dot |-> 0, norm1_sq |-> 1, norm2_sq |-> 1, value |-> float_zero]
        ELSE [dot |-> dot, norm1_sq |-> norm1_sq, norm2_sq |-> norm2_sq,
              value |-> float_div(dot_product, float_mul(norm1, norm2))]

CosineIsOne(c) == c.dot > 0 /\ c.dot * c.dot = c.norm1_sq * c.norm2_sq
CosineIsZero(c) == c.dot = 0

(***************************************************************************)
(* Inputs.                                                                 *)
(***************************************************************************)

\* similarity thresholds 0.1, 0.3 and 0.5 (the tests use 0.1, 0.3 and 0.5)
Thresholds == {Rat(1, 10), Rat(3, 10), Rat(1, 2)}

\* pieces of documents: sentences with the whitespace that follows them
Pieces ==
    {<<"a", " ", "b", ".", " ">>,
     <<"a", " ", "c", ".", "\n">>,
     <<"b", ".", " ">>,
     <<"A", " ", "b", " ", "c", "!", " ">>,
     <<" ">>,
     <<"d", "a", "t", "a", "?">>}

RECURSIVE Concats(_, _)
\* the concatenations of at most n elements of pool
Concats(pool, n) ==
    IF n = 0 THEN {<<>>}
    ELSE LET shorter == Concats(pool, n - 1)
         IN  shorter \cup {p \o q : p \in pool, q \in shorter}

Documents == Concats(Pieces, MaxPieces)

NotCalled == [status |-> "not called"]

(***************************************************************************)
(* The chunking specification: at most MaxRuns chunkers with different      *)
(* thresholds are run on one document.  runs[th] is what                   *)
(* SemanticChunker(th).chunk_document returned, demo_runs[th] the outcome  *)
(* of the demo's chunk_document.                                           *)
(***************************************************************************)
Init ==
    /\ NoQueue
    /\ text \in Documents
    /\ runs = <<>>
    /\ demo_runs = <<>>
    /\ sentences = NotCalled
    /\ demo_sentences = NotCalled
    /\ jaccard = NotCalled
    /\ cosine = NotCalled
    /\ documents = <<>>
    /\ doc_embeddings = <<>>
    /\ call = NotCalled

RunCount == Cardinality(DOMAIN runs) + Cardinality(DOMAIN demo_runs)

ChunkDocument(th) ==
    /\ RunCount < MaxRuns
    /\ th \notin DOMAIN runs
    /\ runs' = runs @@ (th :> chunk_document(text, th))
    /\ UNCHANGED <<text, demo_runs, sentences, demo_sentences, jaccard, cosine,
                   documents, doc_embeddings, call, queue_vars>>

DemoChunkDocument(th) ==
    /\ RunCount < MaxRuns
    /\ th \notin DOMAIN demo_runs
    /\ demo_runs' = demo_runs @@ (th :> demo_chunk_document(text, th))
    /\ UNCHANGED <<text, runs, sentences, demo_sentences, jaccard, cosine,
                   documents, doc_embeddings, call, queue_vars>>

Next ==
    \/ \E th \in Thresholds : ChunkDocument(th)
    \/ \E th \in Thresholds : DemoChunkDocument(th)

Spec == Init /\ [][Next]_vars

(***************************************************************************)
(* The sentence-splitting specification: both _split_sentences are applied *)
(* to every text of at most MaxLen characters.                             *)
(***************************************************************************)
RawChars == {"a", " ", "\t", "\n", ".", "!", "?", "|"}

RECURSIVE SeqsUpTo(_, _)
SeqsUpTo(chars, n) ==
    IF n = 0 THEN {<<>>}
    ELSE LET shorter == SeqsUpTo(chars, n - 1)
         IN  shorter \cup {Append(q, c) : q \in shorter, c \in chars}

RawTexts == SeqsUpTo(RawChars, MaxLen)

InitSplit ==
    /\ NoQueue
    /\ text \in RawTexts
    /\ runs = <<>>
    /\ demo_runs = <<>>
    /\ sentences = NotCalled
    /\ demo_sentences = NotCalled
    /\ jaccard = NotCalled
    /\ cosine = NotCalled
    /\ documents = <<>>
    /\ doc_embeddings = <<>>
    /\ call = NotCalled

SplitSentences ==
    /\ sentences = NotCalled
    /\ sentences' = [status |-> "returned", value |-> _split_sentences(text)]
    /\ UNCHANGED <<text, runs, demo_runs, demo_sentences, jaccard, cosine,
                   documents, doc_embeddings, call, queue_vars>>

DemoSplitSentences ==
    /\ demo_sentences = NotCalled
    /\ demo_sentences' = [status |-> "returned", value |-> demo_split_sentences(text)]
    /\ UNCHANGED <<text, runs, demo_runs, sentences, jaccard, cosine,
                   documents, doc_embeddings, call, queue_vars>>

NextSplit == SplitSentences \/ DemoSplitSentences

SpecSplit == InitSplit /\ [][NextSplit]_vars

(***************************************************************************)
(* The similarity specification: the two scorers are applied to a text and *)
(* a second text, which may be the text itself.                            *)
(***************************************************************************)
SimTokens ==
    {<<"r", "a", "g">>,
     <<"L", "L", "M", " ">>,
     <<" ">>,
     <<"a", "b", " ">>,
     <<"q", "u", "e", "r", "y", ".">>}

SimOthers ==
    {<<"r", "a", "g", " ", "l", "l", "m">>,
     <<"a", "b">>}

SimTexts == Concats(SimTokens, MaxWords)

InitSim ==
    /\ NoQueue
    /\ text \in SimTexts
    /\ runs = <<>>
    /\ demo_runs = <<>>
    /\ sentences = NotCalled
    /\ demo_sentences = NotCalled
    /\ jaccard = NotCalled
    /\ cosine = NotCalled
    /\ documents = <<>>
    /\ doc_embeddings = <<>>
    /\ call = NotCalled

CalculateSimilarity(sent2) ==
    /\ jaccard = NotCalled
    /\ jaccard' = [status |-> "returned", sent1 |-> text, sent2 |-> sent2,
                   value |-> _calculate_similarity(text, sent2)]
    /\ UNCHANGED <<text, runs, demo_runs, sentences, demo_sentences, cosine,
                   documents, doc_embeddings, call, queue_vars>>

EmbeddingSimilarity(text2) ==
    /\ cosine = NotCalled
    /\ cosine' = [status |-> "returned", text1 |-> text, text2 |-> text2,
                  value |-> similarity(embed(text), embed(text2))]
    /\ UNCHANGED <<text, runs, demo_runs, sentences, demo_sentences, jaccard,
                   documents, doc_embeddings, call, queue_vars>>

NextSim ==
    \/ \E sent2 \in {text} \cup SimOthers : CalculateSimilarity(sent2)
    \/ \E text2 \in {text} \cup SimOthers : EmbeddingSimilarity(text2)

SpecSim == InitSim /\ [][NextSim]_vars

(***************************************************************************)
(* Properties of the chunker.                                              *)
(***************************************************************************)
IsBlank(t) == \A k \in 1..Len(t) : IsSpace(t[k])

RECURSIVE SumCounts(_, _)
\* the number of sentences in the first k chunks
SumCounts(chunks, k) ==
    IF k = 0 THEN 0 ELSE SumCounts(chunks, k - 1) + chunks[k].sentence_count

ChunkTexts(chunks) == [k \in 1..Len(chunks) |-> chunks[k].text]

\* the positions j such that sentences j and j+1 are less similar than th
LowPairs(sents, th) ==
    {j \in 1..(Len(sents) - 1) :
        RatLT(_calculate_similarity(sents[j], sents[j + 1]), th)}

\* the k-th smallest element of a set of numbers
KthSmallest(set, k) == CHOOSE b \in set : Cardinality({x \in set : x <= b}) = k

\* the k-th group of sentences when the list is cut at the positions in cuts
Group(sents, cuts, k) ==
    SubSeq(sents,
           IF k = 1 THEN 1 ELSE KthSmallest(cuts, k - 1) + 1,
           IF k = Cardinality(cuts) + 1 THEN Len(sents) ELSE KthSmallest(cuts, k))

\* C1: for a non-empty sentence list chunk_document returns at least one
\* chunk, every chunk holds at least one sentence, the chunks together hold
\* as many sentences as the input and, read in order, exactly the input
\* sentences in their order; one sentence gives one chunk holding it.
C1_Partition ==
    \A th \in DOMAIN runs :
        LET sents == _split_sentences(text)
            chunks == runs[th]
        IN  sents # <<>> =>
              /\ Len(chunks) >= 1
              /\ \A k \in 1..Len(chunks) : chunks[k].sentence_count >= 1
              /\ SumCounts(chunks, Len(chunks)) = Len(sents)
              /\ str_join(<<" ">>, ChunkTexts(chunks)) = str_join(<<" ">>, sents)
              /\ Len(sents) = 1 =>
                    /\ Len(chunks) = 1
                    /\ chunks[1].text = sents[1]
                    /\ chunks[1].sentence_count = 1

C1_Witness ==
    \E th \in DOMAIN runs :
        /\ Len(_split_sentences(text)) >= 3
        /\ Len(runs[th]) >= 2
        /\ \E k \in 1..Len(runs[th]) : runs[th][k].sentence_count >= 2

\* C2: sentences j and j+1 are in the same chunk exactly when their
\* similarity is at least the threshold, a chunk ends between them exactly
\* when it is below, and the number of chunks is 1 plus the number of
\* adjacent pairs below the threshold.
C2_AdjacentPairs ==
    \A th \in DOMAIN runs :
        LET sents == _split_sentences(text)
            chunks == runs[th]
            ends == {SumCounts(chunks, k) : k \in 1..(Len(chunks) - 1)}
        IN  sents # <<>> =>
              /\ \A j \in 1..(Len(sents) - 1) :
                    /\ j \in ends <=>
                         RatLT(_calculate_similarity(sents[j], sents[j + 1]), th)
                    /\ j \notin ends <=>
                         RatGE(_calculate_similarity(sents[j], sents[j + 1]), th)
              /\ Len(chunks) = 1 + Cardinality(LowPairs(sents, th))

\* a chunk of two sentences is extended by a third one that is similar to the
\* second but not to the first
C2_Witness ==
    \E th \in DOMAIN runs :
        LET sents == _split_sentences(text)
        IN  /\ Len(sents) = 3
            /\ Len(runs[th]) = 1
            /\ RatLT(_calculate_similarity(sents[1], sents[3]), th)

C4_LowerGivesMore ==
    /\ \A low \in DOMAIN runs : \A high \in DOMAIN runs :
          RatLT(low, high) => Len(runs[low]) >= Len(runs[high])
    /\ \A low \in DOMAIN demo_runs : \A high \in DOMAIN demo_runs :
          (/\ RatLT(low, high)
           /\ demo_runs[low].status = "returned"
           /\ demo_runs[high].status = "returned")
          => Len(demo_runs[low].chunks) >= Len(demo_runs[high].chunks)

\* C5: the text of every chunk is its member sentences joined by single
\* spaces, in order; sentence_count is their number and char_count is the
\* length of the text.
C5_ChunkFields ==
    \A th \in DOMAIN runs :
        LET sents == _split_sentences(text)
            chunks == runs[th]
            cuts == LowPairs(sents, th)
        IN  sents # <<>> =>
              /\ Len(chunks) = Cardinality(cuts) + 1
              /\ \A k \in 1..(Cardinality(cuts) + 1) :
                    /\ chunks[k].text = str_join(<<" ">>, Group(sents, cuts, k))
                    /\ chunks[k].sentence_count = Len(Group(sents, cuts, k))
                    /\ chunks[k].char_count = Len(chunks[k].text)

C5_Witness ==
    \E th \in DOMAIN runs :
        /\ Len(runs[th]) >= 2
        /\ \E k \in 1..Len(runs[th]) :
              /\ runs[th][k].sentence_count >= 2
              /\ runs[th][k].char_count > 0

\* C6: the chunk at position i of a returned list has id i, counted from 0,
\* the last chunk included, in the pattern and in the demo.
C6_SequentialIds ==
    /\ \A th \in DOMAIN runs :
          \A k \in 1..Len(runs[th]) : runs[th][k].id = k - 1
    /\ \A th \in DOMAIN demo_runs :
          \A k \in 1..Len(demo_runs[th].chunks) : demo_runs[th].chunks[k].id = k - 1

C6_Witness ==
    /\ \E th \in DOMAIN runs : Len(runs[th]) >= 3
    /\ \E th \in DOMAIN demo_runs : Len(demo_runs[th].chunks) >= 3

\* C7: the pattern's chunk_document returns the empty list for an empty or
\* whitespace-only document.
C7_BlankGivesNoChunks ==
    IsBlank(text) => \A th \in DOMAIN runs : runs[th] = <<>>

C7_Witness ==
    /\ text # <<>>
    /\ IsBlank(text)
    /\ DOMAIN runs # {}

\* C8: the demo's chunk_document("") completes without raising and returns
\* at most one chunk.
C8_DemoEmptyDocument ==
    text = <<>> =>
        \A th \in DOMAIN demo_runs :
            /\ demo_runs[th].status = "returned"
            /\ Len(demo_runs[th].chunks) <= 1

(***************************************************************************)
(* Properties of the sentence splitter.                                    *)
(***************************************************************************)
Terminators == {".", "!", "?"}

\* the characters of t that are neither whitespace nor the separator '|'
Visible(t) == SelectSeq(t, LAMBDA c : ~IsSpace(c) /\ c # "|")

RECURSIVE Flatten(_)
Flatten(parts) == IF parts = <<>> THEN <<>> ELSE parts[1] \o Flatten(Tail(parts))

\* the numbers of visible characters up to the end of each sentence
SentenceEnds(out) ==
    {Len(Visible(Flatten(SubSeq(out, 1, k)))) : k \in 1..Len(out)}

\* C9: _split_sentences returns non-empty, trimmed sentences in which every
\* whitespace run is a single space; they hold the visible characters of the
\* text in order; a sentence ends at every '.', '!' or '?' that is followed
\* by a space, a tab or a newline; the result is empty for an empty or
\* whitespace-only text.
C9_SplitSentences ==
    sentences # NotCalled =>
        LET out == sentences.value
        IN  /\ \A k \in 1..Len(out) :
                  /\ out[k] # <<>>
                  /\ ~IsSpace(out[k][1])
                  /\ ~IsSpace(out[k][Len(out[k])])
                  /\ \A i \in 1..Len(out[k]) :
                        IsSpace(out[k][i]) =>
                            /\ out[k][i] = " "
                            /\ ~IsSpace(out[k][i + 1])
            /\ Visible(Flatten(out)) = Visible(text)
            /\ \A i \in 1..(Len(text) - 1) :
                  (text[i] \in Terminators /\ IsSpace(text[i + 1])) =>
                      Len(Visible(SubSeq(text, 1, i))) \in SentenceEnds(out)
            /\ IsBlank(text) => out = <<>>

\* a terminator followed by a tab or a newline has split the text in two
C9_Witness ==
    /\ sentences # NotCalled
    /\ Len(sentences.value) = 2
    /\ \E i \in 1..(Len(text) - 1) :
          text[i] \in Terminators /\ text[i + 1] \in {"\t", "\n"}

(***************************************************************************)
(* Properties of the scorers.                                              *)
(***************************************************************************)
HasKeyword(t) ==
    \E k \in 1..Len(keywords) : \E i \in 1..Len(t) :
        StartsWith(str_lower(t), i, keywords[k])

float_one == float_int(1)

\* C11 as stated: both scorers are symmetric and return a value in [0, 1] on
\* all inputs; an empty token set (Jaccard) or a zero norm (cosine) gives 0.0.
C11_SymmetricUnitRange ==
    /\ jaccard # NotCalled =>
          /\ RatEQ(jaccard.value,
                   _calculate_similarity(jaccard.sent2, jaccard.sent1))
          /\ RatLE(Rat(0, 1), jaccard.value)
          /\ RatLE(jaccard.value, Rat(1, 1))
          /\ (IsBlank(jaccard.sent1) \/ IsBlank(jaccard.sent2)) =>
                RatEQ(jaccard.value, Rat(0, 1))
    /\ cosine # NotCalled =>
          /\ cosine.value.value =
                similarity(embed(cosine.text2), embed(cosine.text1)).value
          /\ float_le(float_zero, cosine.value.value)
          /\ float_le(cosine.value.value, float_one)
          /\ (~HasKeyword(cosine.text1) \/ ~HasKeyword(cosine.text2)) =>
                cosine.value.value = float_zero

\* The part of C11 that holds: symmetry, the zero cases and the lower bound
\* of both scorers, and the upper bound 1.0 of the Jaccard scorer.
C11_SymmetricZeroCases ==
    /\ jaccard # NotCalled =>
          /\ RatEQ(jaccard.value,
                   _calculate_similarity(jaccard.sent2, jaccard.sent1))
          /\ RatLE(Rat(0, 1), jaccard.value)
          /\ RatLE(jaccard.value, Rat(1, 1))
          /\ (IsBlank(jaccard.sent1) \/ IsBlank(jaccard.sent2)) =>
                RatEQ(jaccard.value, Rat(0, 1))
    /\ cosine # NotCalled =>
          /\ cosine.value.value =
                similarity(embed(cosine.text2), embed(cosine.text1)).value
          /\ float_le(float_zero, cosine.value.value)
          /\ (~HasKeyword(cosine.text1) \/ ~HasKeyword(cosine.text2)) =>
                cosine.value.value = float_zero

\* the cosine of a text with itself was computed and exceeds 1.0
C11_AboveOne ==
    /\ cosine # NotCalled
    /\ cosine.text2 = cosine.text1
    /\ float_lt(float_one, cosine.value.value)

(***************************************************************************)
(* patterns/04-metadata-filtering/example.py                               *)
(***************************************************************************)
keywords_04 ==
    <<<<"a", "p", "i">>,
      <<"s", "d", "k">>,
      <<"t", "u", "t", "o", "r", "i", "a", "l">>,
      <<"g", "u", "i", "d", "e">>,
      <<"r", "e", "f", "e", "r", "e", "n", "c", "e">>,
      <<"p", "y", "t", "h", "o", "n">>,
      <<"j", "a", "v", "a", "s", "c", "r", "i", "p", "t">>,
      <<"a", "u", "t", "h", "e", "n", "t", "i", "c", "a", "t", "i", "o", "n">>,
      <<"d", "a", "t", "a", "b", "a", "s", "e">>>>

\* SimpleEmbedding.embed of the filtering pattern, entries in halves
embed_04(t) ==
    LET text_lower == str_lower(t)
    IN  [k \in 1..Len(keywords_04) |->
            IF str_count(text_lower, keywords_04[k]) >= 2
            THEN 2
            ELSE str_count(text_lower, keywords_04[k])]

\* A filter condition is a literal or an operator dict.  The operator dict
\* keeps one field for each operator the code looks at: Absent when the
\* dict has no such key, <<operand>> when it has; the list of $in is kept as
\* the set of its elements.
Absent == <<>>
Literal(v) == [dict |-> FALSE, value |-> v]
Operators(gte, lte, in_list, ne) ==
    [dict |-> TRUE, gte |-> gte, lte |-> lte, in_list |-> in_list, ne |-> ne]

\* the loop body of matches with a missing key letting the document pass
matches_key_missing_passes(doc_metadata, key, condition) ==
    IF key \notin DOMAIN doc_metadata THEN TRUE
    ELSE LET doc_value == doc_metadata[key]
         IN  IF condition.dict
             THEN IF condition.gte # Absent /\ doc_value < condition.gte[1]
                  THEN FALSE
                  ELSE IF condition.lte # Absent /\ doc_value > condition.lte[1]
                  THEN FALSE
                  ELSE IF /\ condition.in_list # Absent
                          /\ doc_value \notin condition.in_list[1]
                  THEN FALSE
                  ELSE IF condition.ne # Absent /\ doc_value = condition.ne[1]
                  THEN FALSE
                  ELSE TRUE
             ELSE IF doc_value # condition.value THEN FALSE ELSE TRUE

\* The loop body of MetadataFilter.matches for one (key, condition) item:
\* FALSE where the code returns False, TRUE where it goes on to the next item.
matches_key(doc_metadata, key, condition) ==
    IF key \notin DOMAIN doc_metadata THEN FALSE
    ELSE LET doc_value == doc_metadata[key]
         IN  IF condition.dict
             THEN IF condition.gte # Absent /\ doc_value < condition.gte[1]
                  THEN FALSE
                  ELSE IF condition.lte # Absent /\ doc_value > condition.lte[1]
                  THEN FALSE
                  ELSE IF /\ condition.in_list # Absent
                          /\ doc_value \notin condition.in_list[1]
                  THEN FALSE
                  ELSE IF condition.ne # Absent /\ doc_value = condition.ne[1]
                  THEN FALSE
                  ELSE TRUE
             ELSE IF doc_value # condition.value THEN FALSE ELSE TRUE

\* a loop that lets no document pass when there is no item to visit
matches_loop_strict(doc_metadata, filters, keys) ==
    /\ keys # {}
    /\ \A key \in keys : matches_key(doc_metadata, key, filters[key])

RECURSIVE matches_loop(_, _, _)
\* for key, condition in filters.items(), over the items not yet visited
matches_loop(doc_metadata, filters, keys) ==
    IF keys = {} THEN TRUE
    ELSE LET key == CHOOSE k \in keys : TRUE
         IN  IF ~matches_key(doc_metadata, key, filters[key])
             THEN FALSE
             ELSE matches_loop(doc_metadata, filters, keys \ {key})

\* matches accepting a document as soon as one item holds
matches_any(doc_metadata, filters) ==
    \E key \in DOMAIN filters : matches_key(doc_metadata, key, filters[key])

\* MetadataFilter.matches
matches(doc_metadata, filters) ==
    matches_loop(doc_metadata, filters, DOMAIN filters)

\* FilteredRetriever.__init__: the dict comprehension keeps, for an id, the
\* embedding of the last document that has it
init_embeddings_04(docs) ==
    [id \in {docs[i].id : i \in 1..Len(docs)} |->
        LET last == CHOOSE i \in 1..Len(docs) :
                        /\ docs[i].id = id
                        /\ \A j \in (i + 1)..Len(docs) : docs[j].id # id
        IN  embed_04(docs[last].content)]

\* the (doc, similarity) pairs of the scoring loop
score_documents(docs, embeddings, query_embedding) ==
    [i \in 1..Len(docs) |->
        [doc |-> docs[i],
         score |-> similarity(query_embedding, embeddings[docs[i].id]).value]]

\* a sort step that puts x in front of the elements of equal score
sort_insert_before_ties(sorted, x) ==
    LET ahead == Cardinality({i \in 1..Len(sorted) :
                                 float_cmp(sorted[i].score, x.score) > 0})
    IN  SubSeq(sorted, 1, ahead) \o <<x>> \o SubSeq(sorted, ahead + 1, Len(sorted))

\* list.sort(key=lambda x: x[1], reverse=True) step: x goes behind the
\* elements that do not score less, which is what the stable sort does to an
\* element met after them
sort_insert(sorted, x) ==
    LET ahead == Cardinality({i \in 1..Len(sorted) :
                                 float_cmp(sorted[i].score, x.score) >= 0})
    IN  SubSeq(sorted, 1, ahead) \o <<x>> \o SubSeq(sorted, ahead + 1, Len(sorted))

RECURSIVE sort_from(_, _, _)
sort_from(results, i, sorted) ==
    IF i > Len(results) THEN sorted
    ELSE sort_from(results, i + 1, sort_insert(sorted, results[i]))

\* results.sort(key=lambda x: x[1], reverse=True)
sort_reverse(results) == sort_from(results, 1, <<>>)

\* the slice s[:k]
slice_to(s, k) ==
    IF k >= 0
    THEN SubSeq(s, 1, IF k < Len(s) THEN k ELSE Len(s))
    ELSE SubSeq(s, 1, IF Len(s) + k > 0 THEN Len(s) + k ELSE 0)

\* FilteredRetriever.retrieve_unfiltered
retrieve_unfiltered(docs, embeddings, query, top_k) ==
    LET query_embedding == embed_04(query)
        results == score_documents(docs, embeddings, query_embedding)
    IN  slice_to(sort_reverse(results), top_k)

\* retrieve_filtered ranking the whole corpus
retrieve_filtered_unfiltered(docs, embeddings, query, filters, top_k) ==
    LET filtered_docs ==
            SelectSeq(docs, LAMBDA doc : matches(doc.metadata, filters))
        query_embedding == embed_04(query)
        results == score_documents(docs, embeddings, query_embedding)
    IN  [filtered_docs |-> filtered_docs,
         results |-> slice_to(sort_reverse(results), top_k)]

\* FilteredRetriever.retrieve_filtered
retrieve_filtered(docs, embeddings, query, filters, top_k) ==
    LET filtered_docs ==
            SelectSeq(docs, LAMBDA doc : matches(doc.metadata, filters))
        query_embedding == embed_04(query)
        results == score_documents(filtered_docs, embeddings, query_embedding)
    IN  [filtered_docs |-> filtered_docs,
         results |-> slice_to(sort_reverse(results), top_k)]

(***************************************************************************)
(* The matching specification: MetadataFilter.matches is applied to a      *)
(* document's metadata and a filter.  Metadata values are numbers, so that *)
(* every comparison of the code is defined.                                *)
(***************************************************************************)
MaxValue == 2

chunk_vars ==
    <<text, runs, demo_runs, sentences, demo_sentences, jaccard, cosine>>

\* no text is being chunked or compared
NoChunking ==
    /\ text = <<>>
    /\ runs = <<>>
    /\ demo_runs = <<>>
    /\ sentences = NotCalled
    /\ demo_sentences = NotCalled
    /\ jaccard = NotCalled
    /\ cosine = NotCalled

Keys == {"version", "year"}
Values == 1..MaxValue
Optional(set) == {Absent} \cup {<<x>> : x \in set}

\* every literal and every operator dict over the values
RichConditions ==
    {Literal(v) : v \in Values} \cup
    {Operators(gte, lte, in_list, ne) :
        gte \in Optional(Values), lte \in Optional(Values),
        in_list \in Optional(SUBSET Values), ne \in Optional(Values)}

\* the literals and the dicts of at most one of $in and $ne
PlainConditions ==
    {Literal(v) : v \in Values} \cup
    {Operators(Absent, Absent, in_list, Absent) :
        in_list \in Optional(SUBSET Values)} \cup
    {Operators(Absent, Absent, Absent, ne) : ne \in Optional(Values)}

Metadatas == UNION {[present -> Values] : present \in SUBSET Keys}

FilterSpecs ==
    {<<>>} \cup
    {"year" :> c : c \in RichConditions} \cup
    {"version" :> c : c \in PlainConditions} \cup
    {("year" :> c) @@ ("version" :> d) :
        c \in RichConditions, d \in PlainConditions}

InitMatch ==
    /\ NoQueue
    /\ NoChunking
    /\ documents = <<>>
    /\ doc_embeddings = <<>>
    /\ call = NotCalled

Matches(doc_metadata, filters) ==
    /\ call' = [op |-> "matches", doc_metadata |-> doc_metadata,
                filters |-> filters, value |-> matches(doc_metadata, filters)]
    /\ UNCHANGED <<chunk_vars, documents, doc_embeddings, queue_vars>>

\* one call is made in a behaviour
NextMatch ==
    /\ call = NotCalled
    /\ \E doc_metadata \in Metadatas, filters \in FilterSpecs :
            Matches(doc_metadata, filters)

SpecMatch == InitMatch /\ [][NextMatch]_vars

(***************************************************************************)
(* The filtered-retrieval specification: a FilteredRetriever is built over *)
(* a corpus and answers one query.                                         *)
(***************************************************************************)
MaxDocs == 3
MaxTopK == 2

Document(id, title, content, metadata) ==
    [id |-> id, title |-> title, content |-> content, metadata |-> metadata]

DocPool_04 ==
    <<Document("doc1", "API v3",
               <<"a", "p", "i", " ", "s", "d", "k">>,
               ("version" :> 2) @@ ("year" :> 2)),
      Document("doc2", "API v1",
               <<"A", "P", "I", " ", "a", "p", "i", " ", "g", "u", "i", "d", "e">>,
               ("version" :> 1) @@ ("year" :> 1)),
      Document("doc3", "Tutorial",
               <<"p", "y", "t", "h", "o", "n", " ", "a", "p", "i", " ", "t", "u", "t", "o", "r", "i", "a", "l">>,
               ("version" :> 2)),
      Document("doc4", "Database",
               <<"d", "a", "t", "a", "b", "a", "s", "e">>,
               ("version" :> 2) @@ ("year" :> 1)),
      Document("doc5", "Notes",
               <<"n", "o", "t", "e", "s">>,
               ("year" :> 2))>>

\* the elements of pool at the positions in picked, in the order of pool
Pick(pool, picked) ==
    [k \in 1..Cardinality(picked) |-> pool[KthSmallest(picked, k)]]

Corpora(pool) ==
    {Pick(pool, picked) :
        picked \in {p \in SUBSET (1..Len(pool)) : Cardinality(p) <= MaxDocs}}

Queries_04 ==
    {<<"a", "p", "i">>,
     <<"p", "y", "t", "h", "o", "n", " ", "g", "u", "i", "d", "e">>,
     <<"D", "a", "t", "a", "b", "a", "s", "e", " ", "a", "p", "i">>,
     <<>>}

FilterPool ==
    {<<>>,
     "version" :> Literal(2),
     "version" :> Operators(Absent, Absent, Absent, <<2>>),
     "year" :> Operators(<<1>>, <<1>>, Absent, Absent),
     "year" :> Operators(Absent, Absent, Absent, <<1>>),
     ("version" :> Operators(Absent, Absent, <<{1, 2}>>, Absent))
         @@ ("year" :> Operators(<<2>>, Absent, Absent, Absent))}

TopKs == 0..MaxTopK

InitFilter ==
    /\ NoQueue
    /\ NoChunking
    /\ documents \in Corpora(DocPool_04)
    /\ doc_embeddings = init_embeddings_04(documents)
    /\ call = NotCalled

RetrieveUnfiltered(query, top_k) ==
    /\ call' = [op |-> "retrieve_unfiltered", query |-> query, top_k |-> top_k,
                results |-> retrieve_unfiltered(documents, doc_embeddings,
                                                query, top_k)]
    /\ UNCHANGED <<chunk_vars, documents, doc_embeddings, queue_vars>>

RetrieveFiltered(query, filters, top_k) ==
    /\ call' = [op |-> "retrieve_filtered", query |-> query,
                filters |-> filters, top_k |-> top_k,
                value |-> retrieve_filtered(documents, doc_embeddings,
                                            query, filters, top_k)]
    /\ UNCHANGED <<chunk_vars, documents, doc_embeddings, queue_vars>>

\* one query is answered in a behaviour
NextFilter ==
    /\ call = NotCalled
    /\ \/ \E query \in Queries_04, top_k \in TopKs :
              RetrieveUnfiltered(query, top_k)
       \/ \E query \in Queries_04, filters \in FilterPool, top_k \in TopKs :
              RetrieveFiltered(query, filters, top_k)

SpecFilter == InitFilter /\ [][NextFilter]_vars

(***************************************************************************)
(* Properties of the metadata filter.                                      *)
(***************************************************************************)
\* a metadata value satisfies a condition: it equals the literal, or every
\* operator the dict holds is true of it
Satisfies(doc_value, condition) ==
    IF condition.dict
    THEN /\ condition.gte # Absent => doc_value >= condition.gte[1]
         /\ condition.lte # Absent => doc_value <= condition.lte[1]
         /\ condition.in_list # Absent => doc_value \in condition.in_list[1]
         /\ condition.ne # Absent => doc_value # condition.ne[1]
    ELSE doc_value = condition.value

\* every key of the filter is present in the metadata with a satisfying value
SatisfiesAll(doc_metadata, filters) ==
    \A key \in DOMAIN filters :
        /\ key \in DOMAIN doc_metadata
        /\ Satisfies(doc_metadata[key], filters[key])

\* C12: matches is true exactly when every key of the filter is present in
\* the metadata and its value equals the literal condition or satisfies every
\* operator ($gte, $lte, $in, $ne) of the operator dict; a key absent from
\* the metadata makes it false.
C12_MatchesExactly ==
    (call # NotCalled /\ call.op = "matches") =>
        call.value = SatisfiesAll(call.doc_metadata, call.filters)

\* a filter on both keys with a range on year matched a document
C12_Witness ==
    /\ call # NotCalled
    /\ call.op = "matches"
    /\ call.value
    /\ DOMAIN call.filters = Keys
    /\ call.filters["year"].dict
    /\ call.filters["year"].gte # Absent
    /\ call.filters["year"].lte # Absent
    /\ call.filters["year"].ne # Absent

\* a filter with a key the metadata lacks was rejected
C12_WitnessAbsent ==
    /\ call # NotCalled
    /\ call.op = "matches"
    /\ ~call.value
    /\ \E key \in DOMAIN call.filters : key \notin DOMAIN call.doc_metadata

\* the conditions that ask no more than a condition: itself, or an operator
\* dict with some of its operators left out
WeakerConditions(condition) ==
    IF condition.dict
    THEN {Operators(gte, lte, in_list, ne) :
             gte \in {Absent, condition.gte}, lte \in {Absent, condition.lte},
             in_list \in {Absent, condition.in_list},
             ne \in {Absent, condition.ne}}
    ELSE {condition}

\* the filters all of whose constraints appear in G
SubFilters(G) ==
    UNION {{F \in [present -> UNION {WeakerConditions(G[key]) : key \in present}] :
               \A key \in present : F[key] \in WeakerConditions(G[key])} :
           present \in SUBSET DOMAIN G}

\* C13: matches is monotonic: when G contains all the constraints of F, a
\* document that matches G matches F.
C13_Monotone ==
    (call # NotCalled /\ call.op = "matches" /\ call.value) =>
        \A F \in SubFilters(call.filters) : matches(call.doc_metadata, F)

\* a document matched a filter on both keys, which has smaller filters
C13_Witness ==
    /\ call # NotCalled
    /\ call.op = "matches"
    /\ call.value
    /\ DOMAIN call.filters = Keys
    /\ Cardinality(SubFilters(call.filters)) > 4

\* C14: every result of retrieve_filtered satisfies the filter and comes from
\* the filtered subset, which holds the matching documents; the number of
\* results is min(top_k, number of matching documents); a document that
\* lacks a key of the filter is left out.
C14_FilteredResults ==
    (call # NotCalled /\ call.op = "retrieve_filtered") =>
        LET results == call.value.results
            filtered_docs == call.value.filtered_docs
            matching == {i \in 1..Len(documents) :
                            SatisfiesAll(documents[i].metadata, call.filters)}
        IN  /\ \A i \in 1..Len(results) :
                  /\ SatisfiesAll(results[i].doc.metadata, call.filters)
                  /\ results[i].doc \in SeqToSet(filtered_docs)
            /\ SeqToSet(filtered_docs) = {documents[i] : i \in matching}
            /\ Len(results) = IF call.top_k < Cardinality(matching)
                              THEN call.top_k
                              ELSE Cardinality(matching)
            /\ \A i \in 1..Len(documents) :
                  (\E key \in DOMAIN call.filters :
                        key \notin DOMAIN documents[i].metadata) =>
                      \A j \in 1..Len(results) : results[j].doc # documents[i]

\* a filtered query cut at top_k over a corpus with a document that lacks a
\* key of the filter
C14_Witness ==
    /\ call # NotCalled
    /\ call.op = "retrieve_filtered"
    /\ call.top_k >= 1
    /\ Len(call.value.results) = call.top_k
    /\ Len(call.value.filtered_docs) > call.top_k
    /\ \E i \in 1..Len(documents) :
          \E key \in DOMAIN call.filters :
              key \notin DOMAIN documents[i].metadata

(***************************************************************************)
(* patterns/03-reranking/example.py: the re-ranker and the two-stage       *)
(* retriever                                                               *)
(***************************************************************************)
\* sub in s
str_contains(s, sub) ==
    \/ sub = <<>>
    \/ \E i \in 1..(Len(s) - Len(sub) + 1) : StartsWith(s, i, sub)

RECURSIVE phrase_loop(_, _, _, _)
\* The exact phrase loops of SimpleReRanker.score from the phrase of words
\* i..j on: the sum of the lengths j - i + 1 of the phrases found in the
\* document, which the code adds to the score multiplied by 2.0
phrase_loop(query_words, doc_lower, i, j) ==
    IF i > Len(query_words) THEN 0
    ELSE IF j > Len(query_words)
    THEN phrase_loop(query_words, doc_lower, i + 1, i + 1)
    ELSE LET phrase == str_join(<<" ">>, SubSeq(query_words, i, j))
         IN  (IF str_contains(doc_lower, phrase) THEN j - i + 1 ELSE 0)
             + phrase_loop(query_words, doc_lower, i, j + 1)

RECURSIVE keyword_loop(_, _, _)
\* The keyword loop from word k on: the sum of the counts of the words
\* longer than 3, which the code adds to the score multiplied by 0.5
keyword_loop(query_words, doc_lower, k) ==
    IF k > Len(query_words) THEN 0
    ELSE (IF Len(query_words[k]) > 3
          THEN str_count(doc_lower, query_words[k])
          ELSE 0)
         + keyword_loop(query_words, doc_lower, k + 1)

\* the literal 0.1
float_tenth == float_div(float_int(1), float_int(10))

\* SimpleReRanker.score.  The score before the density step is a sum of
\* multiples of 0.5, exact in doubles; it is counted in halves.
score(query, document) ==
    LET query_lower == str_lower(query)
        doc_lower == str_lower(document)
        query_words == str_split(query_lower)
        halves == 4 * phrase_loop(query_words, doc_lower, 1, 1)
                  + keyword_loop(query_words, doc_lower, 1)
        score0 == float_dyadic(halves, 1)
    IN  IF Len(doc_lower) > 0
        THEN LET density == float_div(score0,
                                      float_div(float_int(Len(doc_lower)),
                                                float_int(100)))
             IN  float_mul(score0,
                           float_add(float_one, float_mul(density, float_tenth)))
        ELSE score0

\* ReRankingRetriever.__init__
init_embeddings_03(docs) ==
    [id \in {docs[i].id : i \in 1..Len(docs)} |->
        LET last == CHOOSE i \in 1..Len(docs) :
                        /\ docs[i].id = id
                        /\ \A j \in (i + 1)..Len(docs) : docs[j].id # id
        IN  embed(docs[last].content)]

\* ReRankingRetriever.retrieve_vector_only
retrieve_vector_only(docs, embeddings, query, top_k) ==
    LET query_embedding == embed(query)
        results == score_documents(docs, embeddings, query_embedding)
    IN  slice_to(sort_reverse(results), top_k)

\* retrieve_with_reranking taking top_k candidates whatever the multiplier
retrieve_with_reranking_top_k(docs, embeddings, query, top_k, candidate_multiplier) ==
    LET candidate_count == top_k
        query_embedding == embed(query)
        vector_results == score_documents(docs, embeddings, query_embedding)
        candidates == slice_to(sort_reverse(vector_results), candidate_count)
        reranked_results ==
            [i \in 1..Len(candidates) |->
                [doc |-> candidates[i].doc,
                 score |-> score(query, candidates[i].doc.content)]]
    IN  [candidates |-> candidates,
         final_results |-> slice_to(sort_reverse(reranked_results), top_k)]

\* stage 2 of retrieve_with_reranking: reranked_results before the sort
rerank_candidates(query, candidates) ==
    [i \in 1..Len(candidates) |->
        [doc |-> candidates[i].doc,
         score |-> score(query, candidates[i].doc.content)]]

\* stage 2 of retrieve_with_reranking and its return value
rerank_stage(query, top_k, candidates) ==
    LET reranked_results == rerank_candidates(query, candidates)
    IN  [candidates |-> candidates,
         final_results |-> slice_to(sort_reverse(reranked_results), top_k)]

\* ReRankingRetriever.retrieve_with_reranking
retrieve_with_reranking(docs, embeddings, query, top_k, candidate_multiplier) ==
    LET candidate_count == top_k * candidate_multiplier
        query_embedding == embed(query)
        vector_results == score_documents(docs, embeddings, query_embedding)
        candidates == slice_to(sort_reverse(vector_results), candidate_count)
    IN  rerank_stage(query, top_k, candidates)

(***************************************************************************)
(* The re-ranking specification: a ReRankingRetriever is built over a      *)
(* corpus and answers one query.                                           *)
(***************************************************************************)
MaxMultiplier == 2

Document_03(id, title, content) ==
    [id |-> id, title |-> title, content |-> content]

DocPool_03 ==
    <<Document_03("doc1", "LLM",
                  <<"l", "l", "m", " ", "q", "u", "e", "r", "y">>),
      Document_03("doc2", "RAG",
                  <<"r", "a", "g", " ", "n", "o", "t", "e", "s">>),
      Document_03("doc3", "Vectors",
                  <<"v", "e", "c", "t", "o", "r", " ", "s", "e", "a", "r", "c", "h">>),
      Document_03("doc4", "Re-ranking",
                  <<"R", "e", "r", "a", "n", "k", " ", "r", "a", "g", " ", "s", "e", "a", "r", "c", "h">>),
      Document_03("doc5", "Notes",
                  <<"n", "o", "t", "e", "s">>)>>

Queries_03 ==
    {<<"r", "a", "g", " ", "l", "l", "m">>,
     <<"v", "e", "c", "t", "o", "r", " ", "s", "e", "a", "r", "c", "h">>,
     <<"R", "e", "r", "a", "n", "k", " ", "s", "e", "a", "r", "c", "h", " ", "r", "e", "s", "u", "l", "t", "s">>,
     <<>>}

Multipliers == 1..MaxMultiplier

InitRerank ==
    /\ NoQueue
    /\ NoChunking
    /\ documents \in Corpora(DocPool_03)
    /\ doc_embeddings = init_embeddings_03(documents)
    /\ call = NotCalled

RetrieveVectorOnly(query, top_k) ==
    /\ call' = [op |-> "retrieve_vector_only", query |-> query,
                top_k |-> top_k,
                results |-> retrieve_vector_only(documents, doc_embeddings,
                                                 query, top_k)]
    /\ UNCHANGED <<chunk_vars, documents, doc_embeddings, queue_vars>>

RetrieveWithReranking(query, top_k, candidate_multiplier) ==
    /\ call' = [op |-> "retrieve_with_reranking", query |-> query,
                top_k |-> top_k, candidate_multiplier |-> candidate_multiplier,
                value |-> retrieve_with_reranking(documents, doc_embeddings,
                                                  query, top_k,
                                                  candidate_multiplier)]
    /\ UNCHANGED <<chunk_vars, documents, doc_embeddings, queue_vars>>

\* one query is answered in a behaviour
NextRerank ==
    /\ call = NotCalled
    /\ \/ \E query \in Queries_03, top_k \in TopKs :
              RetrieveVectorOnly(query, top_k)
       \/ \E query \in Queries_03, top_k \in TopKs,
             candidate_multiplier \in Multipliers :
              RetrieveWithReranking(query, top_k, candidate_multiplier)

SpecRerank == InitRerank /\ [][NextRerank]_vars

(***************************************************************************)
(* Properties of the two-stage retriever.                                  *)
(***************************************************************************)
Smaller(a, b) == IF a < b THEN a ELSE b

\* C15: for top_k > 0 and candidate_multiplier >= 1, retrieve_with_reranking
\* returns min(candidate_multiplier * top_k, corpus size) candidates and
\* min(top_k, number of candidates) final results.
C15_CandidateCounts ==
    (/\ call # NotCalled
     /\ call.op = "retrieve_with_reranking"
     /\ call.top_k > 0
     /\ call.candidate_multiplier >= 1) =>
        /\ Len(call.value.candidates) =
              Smaller(call.candidate_multiplier * call.top_k, Len(documents))
        /\ Len(call.value.final_results) =
              Smaller(call.top_k, Len(call.value.candidates))

\* the multiplier widened stage 1 and both stages were cut
C15_Witness ==
    /\ call # NotCalled
    /\ call.op = "retrieve_with_reranking"
    /\ call.candidate_multiplier > 1
    /\ Len(call.value.candidates) = call.candidate_multiplier * call.top_k
    /\ Len(call.value.candidates) < Len(documents)
    /\ Len(call.value.final_results) = call.top_k
    /\ Len(call.value.final_results) < Len(call.value.candidates)

\* the position of a document in a list of (doc, score) pairs
PositionOf(results, doc) == CHOOSE j \in 1..Len(results) : results[j].doc = doc

\* C16: stage 2 only reorders and truncates the stage-1 candidates: the final
\* list is a subset of the candidates, holds no document twice, carries the
\* rerank scores in non-increasing order, and keeps documents of equal rerank
\* score in their stage-1 candidate order.
C16_Stage2Reorders ==
    (call # NotCalled /\ call.op = "retrieve_with_reranking") =>
        LET candidates == call.value.candidates
            final_results == call.value.final_results
        IN  /\ \A i \in 1..Len(final_results) :
                  /\ \E j \in 1..Len(candidates) :
                        candidates[j].doc = final_results[i].doc
                  /\ final_results[i].score =
                        score(call.query, final_results[i].doc.content)
            /\ \A i, j \in 1..Len(final_results) :
                  i # j => final_results[i].doc # final_results[j].doc
            /\ \A i \in 1..(Len(final_results) - 1) :
                  /\ float_cmp(final_results[i].score,
                               final_results[i + 1].score) >= 0
                  /\ final_results[i].score = final_results[i + 1].score =>
                        PositionOf(candidates, final_results[i].doc)
                          < PositionOf(candidates, final_results[i + 1].doc)

\* two documents of equal, non-zero rerank score came out in their stage-1
\* order, which is not their order in the corpus
C16_Witness ==
    /\ call # NotCalled
    /\ call.op = "retrieve_with_reranking"
    /\ \E i \in 1..(Len(call.value.final_results) - 1) :
          LET first == call.value.final_results[i]
              second == call.value.final_results[i + 1]
          IN  /\ first.score = second.score
              /\ first.score # float_zero
              /\ \E a, b \in 1..Len(documents) :
                    /\ documents[a] = second.doc
                    /\ documents[b] = first.doc
                    /\ a < b

(***************************************************************************)
(* patterns/05-query-decomposition/example.py                              *)
(***************************************************************************)
\* the sub-questions of the comparison rule
comparison_questions ==
    <<
      <<"W", "h", "a", "t", " ", "i", "s", " ", "a", "s", "y", "n", "c", "i",
        "o", " ", "a", "n", "d", " ", "h", "o", "w", " ", "d", "o", "e", "s",
        " ", "i", "t", " ", "w", "o", "r", "k", "?">>,
      <<"W", "h", "a", "t", " ", "i", "s", " ", "t", "h", "r", "e", "a", "d",
        "i", "n", "g", " ", "a", "n", "d", " ", "h", "o", "w", " ", "d", "o",
        "e", "s", " ", "i", "t", " ", "w", "o", "r", "k", "?">>,
      <<"W", "h", "a", "t", " ", "a", "r", "e", " ", "t", "h", "e", " ", "k",
        "e", "y", " ", "d", "i", "f", "f", "e", "r", "e", "n", "c", "e", "s",
        " ", "b", "e", "t", "w", "e", "e", "n", " ", "a", "s", "y", "n", "c",
        "i", "o", " ", "a", "n", "d", " ", "t", "h", "r", "e", "a", "d", "i",
        "n", "g", "?">>
    >>

\* the sub-questions of the benefit and drawback rule, subject "RAG systems"
benefit_questions ==
    <<
      <<"W", "h", "a", "t", " ", "a", "r", "e", " ", "t", "h", "e", " ", "b",
        "e", "n", "e", "f", "i", "t", "s", " ", "o", "f", " ", "R", "A", "G",
        " ", "s", "y", "s", "t", "e", "m", "s", "?">>,
      <<"W", "h", "a", "t", " ", "a", "r", "e", " ", "t", "h", "e", " ", "d",
        "r", "a", "w", "b", "a", "c", "k", "s", " ", "o", "f", " ", "R", "A",
        "G", " ", "s", "y", "s", "t", "e", "m", "s", "?">>,
      <<"W", "h", "e", "n", " ", "s", "h", "o", "u", "l", "d", " ", "y", "o",
        "u", " ", "u", "s", "e", " ", "R", "A", "G", " ", "s", "y", "s", "t",
        "e", "m", "s", "?">>
    >>

\* the sub-questions of the procedural rule
procedural_questions ==
    <<
      <<"H", "o", "w", " ", "d", "o", " ", "I", " ", "s", "e", "t", " ", "u",
        "p", " ", "t", "h", "e", " ", "f", "e", "a", "t", "u", "r", "e", "?">>,
      <<"H", "o", "w", " ", "d", "o", " ", "I", " ", "u", "s", "e", " ", "t",
        "h", "e", " ", "f", "e", "a", "t", "u", "r", "e", "?">>,
      <<"W", "h", "a", "t", " ", "a", "r", "e", " ", "c", "o", "m", "m", "o",
        "n", " ", "i", "s", "s", "u", "e", "s", "?">>
    >>

word_compare == <<"c", "o", "m", "p", "a", "r", "e">>
word_vs == <<" ", "v", "s", " ">>
word_asyncio == <<"a", "s", "y", "n", "c", "i", "o">>
word_threading == <<"t", "h", "r", "e", "a", "d", "i", "n", "g">>
word_benefit == <<"b", "e", "n", "e", "f", "i", "t">>
word_advantage == <<"a", "d", "v", "a", "n", "t", "a", "g", "e">>
word_drawback == <<"d", "r", "a", "w", "b", "a", "c", "k">>
word_disadvantage == <<"d", "i", "s", "a", "d", "v", "a", "n", "t", "a", "g", "e">>
word_how == <<"h", "o", "w">>
word_and == <<" ", "a", "n", "d", " ">>

\* s.endswith(suffix)
str_endswith(s, suffix) ==
    /\ Len(suffix) <= Len(s)
    /\ SubSeq(s, Len(s) - Len(suffix) + 1, Len(s)) = suffix

\* the list comprehension of the split rule keeping each part as it is
split_questions_verbatim(parts) ==
    [k \in 1..Len(parts) |->
        IF ~str_endswith(parts[k], <<"?">>)
        THEN parts[k] \o <<"?">>
        ELSE parts[k]]

\* [part.strip() + "?" if not part.endswith("?") else part.strip()
\*  for part in parts]
split_questions(parts) ==
    [k \in 1..Len(parts) |->
        IF ~str_endswith(parts[k], <<"?">>)
        THEN str_strip(parts[k]) \o <<"?">>
        ELSE str_strip(parts[k])]

\* decompose_query dropping the empty parts of the split
decompose_query_drop_empty(query) ==
    LET query_lower == str_lower(query)
    IN  IF /\ \/ str_contains(query_lower, word_compare)
              \/ str_contains(query_lower, word_vs)
           /\ str_contains(query_lower, word_asyncio)
           /\ str_contains(query_lower, word_threading)
        THEN comparison_questions
        ELSE IF /\ \/ str_contains(query_lower, word_benefit)
                   \/ str_contains(query_lower, word_advantage)
                /\ \/ str_contains(query_lower, word_drawback)
                   \/ str_contains(query_lower, word_disadvantage)
        THEN benefit_questions
        ELSE IF /\ str_contains(query_lower, word_how)
                /\ str_contains(query_lower, word_and)
        THEN procedural_questions
        ELSE IF str_contains(query_lower, word_and)
        THEN split_questions(SelectNonEmpty(str_split_sep(query, word_and)))
        ELSE <<query>>

\* decompose_query trying the procedural rule before the benefit rule
decompose_query_how_first(query) ==
    LET query_lower == str_lower(query)
    IN  IF /\ \/ str_contains(query_lower, word_compare)
              \/ str_contains(query_lower, word_vs)
           /\ str_contains(query_lower, word_asyncio)
           /\ str_contains(query_lower, word_threading)
        THEN comparison_questions
        ELSE IF /\ str_contains(query_lower, word_how)
                /\ str_contains(query_lower, word_and)
        THEN procedural_questions
        ELSE IF /\ \/ str_contains(query_lower, word_benefit)
                   \/ str_contains(query_lower, word_advantage)
                /\ \/ str_contains(query_lower, word_drawback)
                   \/ str_contains(query_lower, word_disadvantage)
        THEN benefit_questions
        ELSE IF str_contains(query_lower, word_and)
        THEN split_questions(str_split_sep(query, word_and))
        ELSE <<query>>

\* MockLLM.decompose_query
decompose_query(query) ==
    LET query_lower == str_lower(query)
    IN  IF /\ \/ str_contains(query_lower, word_compare)
              \/ str_contains(query_lower, word_vs)
           /\ str_contains(query_lower, word_asyncio)
           /\ str_contains(query_lower, word_threading)
        THEN comparison_questions
        ELSE IF /\ \/ str_contains(query_lower, word_benefit)
                   \/ str_contains(query_lower, word_advantage)
                /\ \/ str_contains(query_lower, word_drawback)
                   \/ str_contains(query_lower, word_disadvantage)
        THEN benefit_questions
        ELSE IF /\ str_contains(query_lower, word_how)
                /\ str_contains(query_lower, word_and)
        THEN procedural_questions
        ELSE IF str_contains(query_lower, word_and)
        THEN split_questions(str_split_sep(query, word_and))
        ELSE <<query>>

keywords_05 ==
    <<<<"a", "s", "y", "n", "c", "i", "o">>,
      <<"t", "h", "r", "e", "a", "d", "i", "n", "g">>,
      <<"p", "e", "r", "f", "o", "r", "m", "a", "n", "c", "e">>,
      <<"c", "o", "n", "c", "u", "r", "r", "e", "n", "c", "y">>,
      <<"p", "a", "r", "a", "l", "l", "e", "l">>,
      <<"e", "v", "e", "n", "t">>,
      <<"l", "o", "o", "p">>,
      <<"c", "p", "u">>,
      <<"i", "o">>,
      <<"b", "l", "o", "c", "k", "i", "n", "g">>>>

\* SimpleEmbedding.embed of the decomposition pattern, entries in halves
embed_05(t) ==
    LET text_lower == str_lower(t)
    IN  [k \in 1..Len(keywords_05) |->
            IF str_count(text_lower, keywords_05[k]) >= 2
            THEN 2
            ELSE str_count(text_lower, keywords_05[k])]

\* QueryDecompositionRetriever.__init__
init_embeddings_05(docs) ==
    [id \in {docs[i].id : i \in 1..Len(docs)} |->
        LET last == CHOOSE i \in 1..Len(docs) :
                        /\ docs[i].id = id
                        /\ \A j \in (i + 1)..Len(docs) : docs[j].id # id
        IN  embed_05(docs[last].content)]

\* QueryDecompositionRetriever.retrieve_single
retrieve_single(docs, embeddings, query, top_k) ==
    LET query_embedding == embed_05(query)
        results == score_documents(docs, embeddings, query_embedding)
    IN  slice_to(sort_reverse(results), top_k)

\* the body of the loop over the sub-questions: top_results
top_results_of(docs, embeddings, sub_q, top_k_per_question) ==
    LET query_embedding == embed_05(sub_q)
        results == score_documents(docs, embeddings, query_embedding)
    IN  slice_to(sort_reverse(results), top_k_per_question)

\* [doc for doc, _ in top_results]
docs_of(top_results) == [i \in 1..Len(top_results) |-> top_results[i].doc]

RECURSIVE extend_all_docs(_, _, _, _, _)
\* all_docs after the loop over the sub-questions from position k on
extend_all_docs(docs, embeddings, sub_questions, top_k_per_question, k) ==
    IF k > Len(sub_questions) THEN <<>>
    ELSE docs_of(top_results_of(docs, embeddings, sub_questions[k],
                                top_k_per_question))
         \o extend_all_docs(docs, embeddings, sub_questions,
                            top_k_per_question, k + 1)

RECURSIVE dedup_keep_last(_, _, _, _)
\* a deduplication that keeps the last occurrence of an id
dedup_keep_last(all_docs, i, seen_ids, unique_docs) ==
    IF i > Len(all_docs) THEN unique_docs
    ELSE IF \E j \in (i + 1)..Len(all_docs) : all_docs[j].id = all_docs[i].id
    THEN dedup_keep_last(all_docs, i + 1, seen_ids, unique_docs)
    ELSE dedup_keep_last(all_docs, i + 1, seen_ids \cup {all_docs[i].id},
                         Append(unique_docs, all_docs[i]))

RECURSIVE dedup_loop(_, _, _, _)
\* the deduplication loop from position i on
dedup_loop(all_docs, i, seen_ids, unique_docs) ==
    IF i > Len(all_docs) THEN unique_docs
    ELSE IF all_docs[i].id \notin seen_ids
    THEN dedup_loop(all_docs, i + 1, seen_ids \cup {all_docs[i].id},
                    Append(unique_docs, all_docs[i]))
    ELSE dedup_loop(all_docs, i + 1, seen_ids, unique_docs)

\* steps 2 and 3 of retrieve_decomposed and its return value; sub_results
\* maps every sub-question to its top results
fan_out(docs, embeddings, sub_questions, top_k_per_question) ==
    LET sub_results ==
            [sub_q \in SeqToSet(sub_questions) |->
                top_results_of(docs, embeddings, sub_q, top_k_per_question)]
        all_docs == extend_all_docs(docs, embeddings, sub_questions,
                                    top_k_per_question, 1)
    IN  [sub_questions |-> sub_questions,
         sub_results |-> sub_results,
         unique_docs |-> dedup_loop(all_docs, 1, {}, <<>>)]

\* QueryDecompositionRetriever.retrieve_decomposed
retrieve_decomposed(docs, embeddings, query, top_k_per_question) ==
    LET sub_questions == decompose_query(query)
    IN  fan_out(docs, embeddings, sub_questions, top_k_per_question)

(***************************************************************************)
(* The decomposition specification: decompose_query is applied to a query  *)
(* put together from a few fragments.                                      *)
(***************************************************************************)
MaxFragments == 3

QueryFragments ==
    {<<"c", "o", "m", "p", "a", "r", "e", " ", "a", "s", "y", "n", "c", "i", "o">>,
     <<" ", "v", "s", " ">>,
     <<"t", "h", "r", "e", "a", "d", "i", "n", "g">>,
     <<"b", "e", "n", "e", "f", "i", "t">>,
     <<" ", "d", "i", "s", "a", "d", "v", "a", "n", "t", "a", "g", "e">>,
     <<"h", "o", "w">>,
     <<" ", "a", "n", "d", " ">>,
     <<"x">>,
     <<"?">>,
     <<" ">>,
     <<" ", "A", "N", "D", " ">>}

DecomposeQueries == Concats(QueryFragments, MaxFragments)

InitDecompose ==
    /\ NoQueue
    /\ NoChunking
    /\ documents = <<>>
    /\ doc_embeddings = <<>>
    /\ call = NotCalled

DecomposeQuery(query) ==
    /\ call' = [op |-> "decompose_query", query |-> query,
                value |-> decompose_query(query)]
    /\ UNCHANGED <<chunk_vars, documents, doc_embeddings, queue_vars>>

\* one query is decomposed in a behaviour
NextDecompose ==
    /\ call = NotCalled
    /\ \E query \in DecomposeQueries : DecomposeQuery(query)

SpecDecompose == InitDecompose /\ [][NextDecompose]_vars

(***************************************************************************)
(* The fusion specification: a QueryDecompositionRetriever is built over a *)
(* corpus and answers one query.                                           *)
(***************************************************************************)
DocPool_05 ==
    <<Document_03("doc1", "Event loop",
                  <<"a", "s", "y", "n", "c", "i", "o", " ", "e", "v", "e", "n", "t", " ", "l", "o", "o", "p">>),
      Document_03("doc2", "Both",
                  <<"t", "h", "r", "e", "a", "d", "i", "n", "g", " ", "t", "h", "r", "e", "a", "d", "i", "n", "g", " ", "a", "s", "y", "n", "c", "i", "o">>),
      Document_03("doc3", "Threads",
                  <<"t", "h", "r", "e", "a", "d", "i", "n", "g", " ", "c", "p", "u">>),
      Document_03("doc4", "Speed",
                  <<"p", "e", "r", "f", "o", "r", "m", "a", "n", "c", "e">>),
      Document_03("doc5", "Notes",
                  <<"n", "o", "t", "e", "s">>)>>

Queries_05 ==
    {<<"a", "s", "y", "n", "c", "i", "o", " ", "l", "o", "o", "p", " ", "a", "n", "d", " ", "t", "h", "r", "e", "a", "d", "i", "n", "g">>,
     <<"C", "o", "m", "p", "a", "r", "e", " ", "a", "s", "y", "n", "c", "i", "o", " ", "v", "s", " ", "t", "h", "r", "e", "a", "d", "i", "n", "g">>,
     <<"p", "e", "r", "f", "o", "r", "m", "a", "n", "c", "e">>,
     <<"h", "o", "w", " ", "x", " ", "a", "n", "d", " ", "y">>,
     <<>>}

InitFusion ==
    /\ NoQueue
    /\ NoChunking
    /\ documents \in Corpora(DocPool_05)
    /\ doc_embeddings = init_embeddings_05(documents)
    /\ call = NotCalled

RetrieveSingle(query, top_k) ==
    /\ call' = [op |-> "retrieve_single", query |-> query, top_k |-> top_k,
                results |-> retrieve_single(documents, doc_embeddings,
                                            query, top_k)]
    /\ UNCHANGED <<chunk_vars, documents, doc_embeddings, queue_vars>>

RetrieveDecomposed(query, top_k_per_question) ==
    /\ call' = [op |-> "retrieve_decomposed", query |-> query,
                top_k_per_question |-> top_k_per_question,
                value |-> retrieve_decomposed(documents, doc_embeddings,
                                              query, top_k_per_question)]
    /\ UNCHANGED <<chunk_vars, documents, doc_embeddings, queue_vars>>

\* one query is answered in a behaviour
NextFusion ==
    /\ call = NotCalled
    /\ \/ \E query \in Queries_05, top_k \in TopKs :
              RetrieveSingle(query, top_k)
       \/ \E query \in Queries_05, top_k_per_question \in TopKs :
              RetrieveDecomposed(query, top_k_per_question)

SpecFusion == InitFusion /\ [][NextFusion]_vars

(***************************************************************************)
(* Properties of the query decomposition.                                  *)
(***************************************************************************)
\* C17: decompose_query returns a non-empty ordered list of sub-queries for
\* every query, the empty string and the queries of the " and " split rule
\* included.
C17_NonEmptyList ==
    (call # NotCalled /\ call.op = "decompose_query") =>
        Len(call.value) >= 1

\* the query " and ", whose split has only empty segments, was decomposed
C17_Witness ==
    /\ call # NotCalled
    /\ call.op = "decompose_query"
    /\ call.query = word_and
    /\ Len(call.value) = 2

\* the empty string was decomposed
C17_WitnessEmpty ==
    /\ call # NotCalled
    /\ call.op = "decompose_query"
    /\ call.query = <<>>
    /\ call.value = << <<>> >>

\* the conditions of the rules, on the lower-cased query
IsComparison(query_lower) ==
    /\ \/ str_contains(query_lower, word_compare)
       \/ str_contains(query_lower, word_vs)
    /\ str_contains(query_lower, word_asyncio)
    /\ str_contains(query_lower, word_threading)

IsBenefitDrawback(query_lower) ==
    /\ \/ str_contains(query_lower, word_benefit)
       \/ str_contains(query_lower, word_advantage)
    /\ \/ str_contains(query_lower, word_drawback)
       \/ str_contains(query_lower, word_disadvantage)

IsProcedural(query_lower) ==
    /\ str_contains(query_lower, word_how)
    /\ str_contains(query_lower, word_and)

\* no rule above the split rule takes the query
ReachesSplitRule(query) ==
    /\ ~IsComparison(str_lower(query))
    /\ ~IsBenefitDrawback(str_lower(query))
    /\ ~IsProcedural(str_lower(query))

\* C18 as stated: a query that contains " and " and matches no earlier rule
\* gives the verbatim segments of its split on " and ", in order, with "?"
\* appended to each segment that does not already end in "?".
C18_VerbatimSplit ==
    (/\ call # NotCalled
     /\ call.op = "decompose_query"
     /\ str_contains(call.query, word_and)
     /\ ReachesSplitRule(call.query)) =>
        LET parts == str_split_sep(call.query, word_and)
        IN  /\ Len(call.value) = Len(parts)
            /\ \A k \in 1..Len(parts) :
                  call.value[k] =
                      IF parts[k] # <<>> /\ parts[k][Len(parts[k])] = "?"
                      THEN parts[k]
                      ELSE parts[k] \o <<"?">>

\* what the split rule gives: the segments of the query, as written, between
\* the occurrences of " and ", each without its leading and trailing
\* whitespace, with "?" appended when the segment before stripping does not
\* end in "?"
IsSplitOutput(query, value) ==
    LET parts == str_split_sep(query, word_and)
    IN  /\ Len(value) = Len(parts)
        /\ \A k \in 1..Len(parts) :
              value[k] =
                  IF parts[k] # <<>> /\ parts[k][Len(parts[k])] = "?"
                  THEN str_strip(parts[k])
                  ELSE str_strip(parts[k]) \o <<"?">>

\* C18 amended: a query whose lower-cased text contains " and " and that
\* matches no earlier rule gives the segments of the original query split on
\* " and ", in order, each stripped of surrounding whitespace, with "?"
\* appended when the unstripped segment does not end in "?".
C18_StrippedSplit ==
    (/\ call # NotCalled
     /\ call.op = "decompose_query"
     /\ str_contains(str_lower(call.query), word_and)
     /\ ReachesSplitRule(call.query)) =>
        IsSplitOutput(call.query, call.value)

\* a split with a segment that carries whitespace and a segment ending in "?"
C18_Witness ==
    /\ call # NotCalled
    /\ call.op = "decompose_query"
    /\ str_contains(call.query, word_and)
    /\ ReachesSplitRule(call.query)
    /\ LET parts == str_split_sep(call.query, word_and)
       IN  /\ \E k \in 1..Len(parts) : str_strip(parts[k]) # parts[k]
           /\ \E k \in 1..Len(parts) :
                 parts[k] # <<>> /\ parts[k][Len(parts[k])] = "?"

\* C19: the rules are tried in a fixed order and the first that matches
\* gives the output: comparison, benefit and drawback, procedural, split,
\* and the query alone when none matches; a comparison marker without both
\* subjects falls through to the later rules.
C19_RulePriority ==
    (call # NotCalled /\ call.op = "decompose_query") =>
        LET query_lower == str_lower(call.query)
        IN  IF IsComparison(query_lower)
            THEN call.value = comparison_questions
            ELSE IF IsBenefitDrawback(query_lower)
            THEN call.value = benefit_questions
            ELSE IF IsProcedural(query_lower)
            THEN call.value = procedural_questions
            ELSE IF str_contains(query_lower, word_and)
            THEN IsSplitOutput(call.query, call.value)
            ELSE call.value = <<call.query>>

\* a query that matches the comparison rule and the benefit rule got the
\* comparison sub-questions
C19_Witness ==
    /\ call # NotCalled
    /\ call.op = "decompose_query"
    /\ IsComparison(str_lower(call.query))
    /\ IsBenefitDrawback(str_lower(call.query))
    /\ call.value = comparison_questions

\* a comparison marker without both subjects fell through to a later rule
C19_WitnessFallThrough ==
    /\ call # NotCalled
    /\ call.op = "decompose_query"
    /\ str_contains(str_lower(call.query), word_compare)
    /\ ~IsComparison(str_lower(call.query))
    /\ IsProcedural(str_lower(call.query))
    /\ call.value = procedural_questions

(***************************************************************************)
(* Properties of the fusion.                                               *)
(***************************************************************************)
\* the documents of the top results of sub-question k of a decomposed call
HitsOf(value, k) ==
    LET top_results == value.sub_results[value.sub_questions[k]]
    IN  [i \in 1..Len(top_results) |-> top_results[i].doc]

\* The places (k, i) where a document id is a hit, numbered in the order of
\* the sub-questions and, within one, of its ranking
PlacesOf(value, id) ==
    {k * (Len(documents) + 1) + i :
        k \in 1..Len(value.sub_questions), i \in 1..Len(documents)} \cap
    UNION {{k * (Len(documents) + 1) + i :
               i \in {j \in 1..Len(HitsOf(value, k)) :
                         HitsOf(value, k)[j].id = id}} :
           k \in 1..Len(value.sub_questions)}

FirstSeen(value, id) ==
    CHOOSE p \in PlacesOf(value, id) : \A q \in PlacesOf(value, id) : p <= q

\* C20: the fused list of retrieve_decomposed holds no document id twice,
\* holds every document of any sub-query's top-k, starts with the first
\* sub-query's ranked hits, and lists the documents in the order in which
\* they were first seen, so that a later sub-query only adds the documents
\* not seen before, in its own ranked order.
C20_FirstSeenFusion ==
    (call # NotCalled /\ call.op = "retrieve_decomposed") =>
        LET value == call.value
            unique_docs == value.unique_docs
        IN  /\ \A a, b \in 1..Len(unique_docs) :
                  a # b => unique_docs[a].id # unique_docs[b].id
            /\ \A k \in 1..Len(value.sub_questions) :
                  SeqToSet(HitsOf(value, k)) \subseteq SeqToSet(unique_docs)
            /\ \A a \in 1..Len(unique_docs) :
                  PlacesOf(value, unique_docs[a].id) # {}
            /\ SubSeq(unique_docs, 1, Len(HitsOf(value, 1)))
                  = HitsOf(value, 1)
            /\ \A a, b \in 1..Len(unique_docs) :
                  a < b => FirstSeen(value, unique_docs[a].id)
                             < FirstSeen(value, unique_docs[b].id)

\* two sub-queries with the hits [A, B] and [B, C] were fused into [A, B, C]
C20_Witness ==
    /\ call # NotCalled
    /\ call.op = "retrieve_decomposed"
    /\ Len(call.value.sub_questions) = 2
    /\ Len(call.value.unique_docs) = 3
    /\ HitsOf(call.value, 1) = SubSeq(call.value.unique_docs, 1, 2)
    /\ HitsOf(call.value, 2) = SubSeq(call.value.unique_docs, 2, 3)

(***************************************************************************)
(* Failures of a collaborator.  The retrievers call their scorer           *)
(* (self.embedding) and their re-ranker (self.reranker) with no try        *)
(* statement around the call: Python unwinds the method at the first       *)
(* exception, and the caller gets the exception instead of a value.  The   *)
(* outcome of a call is Returned(value) or Raised(error).                  *)
(***************************************************************************)
Returned(value) == [raised |-> FALSE, value |-> value]
Raised(error) == [raised |-> TRUE, error |-> error]

RECURSIVE first_raising(_, _, _)
\* The position of the first item from k on whose call raises, 0 when the
\* loop runs to its end
first_raising(n, failing, k) ==
    IF k > n THEN 0
    ELSE IF k \in failing THEN k
    ELSE first_raising(n, failing, k + 1)

\* Steps 2 and 3 of retrieve_decomposed with a scorer that raises for the
\* sub-questions at the positions in failing: the loop over the
\* sub-questions is left at the first of them, with the scorer's exception,
\* which carries the sub-question it was called for
fan_out_scorer(docs, embeddings, sub_questions, top_k_per_question, failing) ==
    LET k == first_raising(Len(sub_questions), failing, 1)
    IN  IF k = 0
        THEN Returned(fan_out(docs, embeddings, sub_questions,
                              top_k_per_question))
        ELSE Raised({[position |-> k, sub_question |-> sub_questions[k]]})

\* QueryDecompositionRetriever.retrieve_decomposed with that scorer
retrieve_decomposed_scorer(docs, embeddings, query, top_k_per_question, failing) ==
    LET sub_questions == decompose_query(query)
    IN  fan_out_scorer(docs, embeddings, sub_questions, top_k_per_question,
                       failing)

(***************************************************************************)
(* The fan-out failure specification: a QueryDecompositionRetriever is     *)
(* built over a corpus and answers one query, while the scorer fails for   *)
(* some of the sub-questions.                                              *)
(***************************************************************************)
Failings(query) == SUBSET (1..Len(decompose_query(query)))

RetrieveDecomposedScorer(query, top_k_per_question, failing) ==
    /\ call' = [op |-> "retrieve_decomposed", query |-> query,
                top_k_per_question |-> top_k_per_question,
                failing |-> failing,
                outcome |-> retrieve_decomposed_scorer(documents, doc_embeddings,
                                                       query, top_k_per_question,
                                                       failing)]
    /\ UNCHANGED <<chunk_vars, documents, doc_embeddings, queue_vars>>

\* one query is answered in a behaviour
NextFanOutFailure ==
    /\ call = NotCalled
    /\ \E query \in Queries_05, top_k_per_question \in TopKs :
          \E failing \in Failings(query) :
              RetrieveDecomposedScorer(query, top_k_per_question, failing)

SpecFanOutFailure == InitFusion /\ [][NextFanOutFailure]_vars

\* the sub-questions at the positions outside failing, in order
Surviving(sub_questions, failing) ==
    Pick(sub_questions, (1..Len(sub_questions)) \ failing)

\* C21: when the scorer fails for some sub-queries of a fan-out but not for
\* all, retrieve_decomposed still returns, and its fused list is the
\* first-seen fusion of the hits of the remaining sub-queries; when it fails
\* for all of them, the call fails with an error that names every sub-query.
C21_FailureContained ==
    (call # NotCalled /\ call.op = "retrieve_decomposed" /\ call.failing # {}) =>
        LET sub_questions == decompose_query(call.query)
            rest == Surviving(sub_questions, call.failing)
        IN  IF rest # <<>>
            THEN /\ ~call.outcome.raised
                 /\ call.outcome.value.unique_docs
                      = dedup_loop(extend_all_docs(documents, doc_embeddings,
                                                   rest, call.top_k_per_question, 1),
                                   1, {}, <<>>)
            ELSE /\ call.outcome.raised
                 /\ {e.position : e \in call.outcome.error} = call.failing

\* a fan-out of several sub-queries in which one scorer call failed and
\* another sub-query had hits
C21_OneFailed ==
    /\ call # NotCalled
    /\ call.op = "retrieve_decomposed"
    /\ Cardinality(call.failing) = 1
    /\ Len(decompose_query(call.query)) >= 2
    /\ call.top_k_per_question > 0
    /\ documents # <<>>
    /\ call.outcome.raised

\* Stage 2 of retrieve_with_reranking with a re-ranker that raises for the
\* candidates whose id is in malformed: the loop is left at the first of
\* them, in the order of the candidates, with the re-ranker's exception
rerank_stage_reranker(query, top_k, candidates, malformed) ==
    LET failing == {i \in 1..Len(candidates) : candidates[i].doc.id \in malformed}
        k == first_raising(Len(candidates), failing, 1)
    IN  IF k = 0
        THEN Returned(rerank_stage(query, top_k, candidates))
        ELSE Raised({[position |-> k, candidate |-> candidates[k].doc.id]})

\* ReRankingRetriever.retrieve_with_reranking with that re-ranker
retrieve_with_reranking_reranker(docs, embeddings, query, top_k, candidate_multiplier, malformed) ==
    LET candidate_count == top_k * candidate_multiplier
        query_embedding == embed(query)
        vector_results == score_documents(docs, embeddings, query_embedding)
        candidates == slice_to(sort_reverse(vector_results), candidate_count)
    IN  rerank_stage_reranker(query, top_k, candidates, malformed)

(***************************************************************************)
(* The re-ranker failure specification: a ReRankingRetriever is built over *)
(* a corpus and answers one query, while the re-ranker fails on some of    *)
(* the documents.                                                          *)
(***************************************************************************)
Malformeds == SUBSET {documents[i].id : i \in 1..Len(documents)}

RetrieveWithRerankingReranker(query, top_k, candidate_multiplier, malformed) ==
    /\ call' = [op |-> "retrieve_with_reranking", query |-> query,
                top_k |-> top_k, candidate_multiplier |-> candidate_multiplier,
                malformed |-> malformed,
                outcome |-> retrieve_with_reranking_reranker(
                                documents, doc_embeddings, query, top_k,
                                candidate_multiplier, malformed)]
    /\ UNCHANGED <<chunk_vars, documents, doc_embeddings, queue_vars>>

\* one query is answered in a behaviour
NextRerankFailure ==
    /\ call = NotCalled
    /\ \E query \in Queries_03, top_k \in TopKs,
          candidate_multiplier \in Multipliers, malformed \in Malformeds :
              RetrieveWithRerankingReranker(query, top_k, candidate_multiplier,
                                            malformed)

SpecRerankFailure == InitRerank /\ [][NextRerankFailure]_vars

\* C22: a candidate whose scoring raises is dropped from the re-ranked set,
\* and the other candidates of stage 1 are still scored, sorted by their
\* re-ranker score and returned, cut to top_k.
C22_ErrorIsLocal ==
    (call # NotCalled /\ call.op = "retrieve_with_reranking") =>
        LET candidates ==
                retrieve_vector_only(documents, doc_embeddings, call.query,
                                     call.top_k * call.candidate_multiplier)
            kept == Pick(candidates,
                         {i \in 1..Len(candidates) :
                             candidates[i].doc.id \notin call.malformed})
            reranked == [i \in 1..Len(kept) |->
                            [doc |-> kept[i].doc,
                             score |-> score(call.query, kept[i].doc.content)]]
        IN  /\ ~call.outcome.raised
            /\ call.outcome.value.final_results
                 = slice_to(sort_reverse(reranked), call.top_k)

(***************************************************************************)
(* patterns/06-parent-child-retrieval/example.py declares a parent         *)
(* document and its child chunks, each chunk with the id of its parent;    *)
(* the example holds no code that resolves chunks to parents.  The         *)
(* resolution is modelled from the specification of the pipeline:  after   *)
(* ranking, each top chunk is resolved to its parent through an id lookup  *)
(* built at indexing time; the result carries the parent's full content,   *)
(* the id of the originating chunk and its score; a parent shared by       *)
(* several top chunks is emitted once, with the highest of their scores.   *)
(* Texts of this pattern are kept as strings: nothing looks inside them.   *)
(***************************************************************************)

PARENT_DOC ==
    "\nPython's asyncio module provides infrastructure for writing single-threaded concurrent\ncode using coroutines, multiplexing I/O access over sockets and other resources, running\nnetwork clients and servers, and other related primitives.\n\nThe asyncio event loop is the core of every asyncio application. Event loops run\nasynchronous tasks and callbacks, perform network IO operations, and run subprocesses.\n\nPerformance characteristics: asyncio excels at I/O-bound operations where you're waiting\nfor external resources. For CPU-bound tasks, threading or multiprocessing is better.\n"

ChildChunk(id, content, parent_id, topic) ==
    [id |-> id, content |-> content, parent_id |-> parent_id, topic |-> topic]

CHILD_CHUNKS ==
    <<ChildChunk("chunk_1",
                 "Python's asyncio module provides infrastructure for writing single-threaded concurrent code...",
                 "doc_001", "Overview"),
      ChildChunk("chunk_2",
                 "The asyncio event loop is the core of every asyncio application...",
                 "doc_001", "Event Loop"),
      ChildChunk("chunk_3",
                 "Performance characteristics: asyncio excels at I/O-bound operations...",
                 "doc_001", "Performance")>>
\* a document of the index: its id and its full content
ParentDocument(id, content) == [id |-> id, content |-> content]

\* the lookup from a parent id to its document, built once from the index
parent_lookup(parents) ==
    [id \in {parents[i].id : i \in 1..Len(parents)} |->
        parents[CHOOSE i \in 1..Len(parents) : parents[i].id = id]]

\* the result for the parent of one top chunk
ParentResult(lookup, hit) ==
    [parent_id |-> hit.chunk.parent_id,
     content |-> lookup[hit.chunk.parent_id].content,
     chunk_id |-> hit.chunk.id,
     score |-> hit.score]

RECURSIVE resolve_loop_first(_, _, _, _)
\* a resolution that keeps the first contributing chunk of a parent
resolve_loop_first(lookup, top_chunks, i, results) ==
    IF i > Len(top_chunks) THEN results
    ELSE IF \E k \in 1..Len(results) :
                results[k].parent_id = top_chunks[i].chunk.parent_id
    THEN resolve_loop_first(lookup, top_chunks, i + 1, results)
    ELSE resolve_loop_first(lookup, top_chunks, i + 1,
                            Append(results, ParentResult(lookup, top_chunks[i])))

RECURSIVE resolve_loop(_, _, _, _)
\* The resolution of the top chunks from position i on: the first chunk of
\* a parent emits the parent, a later chunk of the same parent with a higher
\* score replaces the score and the originating chunk of that result
resolve_loop(lookup, top_chunks, i, results) ==
    IF i > Len(top_chunks) THEN results
    ELSE LET hit == top_chunks[i]
             at == {k \in 1..Len(results) :
                        results[k].parent_id = hit.chunk.parent_id}
         IN  IF at = {}
             THEN resolve_loop(lookup, top_chunks, i + 1,
                               Append(results, ParentResult(lookup, hit)))
             ELSE LET k == CHOOSE k \in at : TRUE
                  IN  IF RatLT(results[k].score, hit.score)
                      THEN resolve_loop(lookup, top_chunks, i + 1,
                                        [results EXCEPT ![k] = ParentResult(lookup, hit)])
                      ELSE resolve_loop(lookup, top_chunks, i + 1, results)

\* parent resolution of the ranked top chunks, pairs of a chunk and its score
resolve_parents(parents, top_chunks) ==
    resolve_loop(parent_lookup(parents), top_chunks, 1, <<>>)

(***************************************************************************)
(* The resolution specification: an index of two parent documents and      *)
(* their chunks; one list of scored top chunks is resolved.                *)
(***************************************************************************)
MaxChunks == 3

ParentPool ==
    <<ParentDocument("doc_001", PARENT_DOC),
      ParentDocument("doc_002", "Threads share memory.\n\nThe GIL serialises bytecode.")>>

ChunkPool ==
    CHILD_CHUNKS \o
    <<ChildChunk("chunk_4", "Threads share memory...", "doc_002", "Threads"),
      ChildChunk("chunk_5", "The GIL serialises bytecode...", "doc_002", "GIL")>>

\* the scores 0.5, 0.7 and 0.9
ChunkScores == {Rat(1, 2), Rat(7, 10), Rat(9, 10)}

\* the lists of at most n scored chunks, no chunk twice
RECURSIVE TopChunkLists(_)
TopChunkLists(n) ==
    IF n = 0 THEN {<<>>}
    ELSE LET shorter == TopChunkLists(n - 1)
         IN  shorter \cup
             {Append(l, [chunk |-> ChunkPool[c], score |-> s]) :
                 l \in {m \in shorter : Len(m) = n - 1},
                 c \in 1..Len(ChunkPool), s \in ChunkScores}

TopChunks ==
    {l \in TopChunkLists(MaxChunks) :
        \A a, b \in 1..Len(l) : a # b => l[a].chunk.id # l[b].chunk.id}

InitResolve ==
    /\ NoQueue
    /\ NoChunking
    /\ documents = ParentPool
    /\ doc_embeddings = <<>>
    /\ call = NotCalled

ResolveParents(top_chunks) ==
    /\ call' = [op |-> "resolve_parents", top_chunks |-> top_chunks,
                results |-> resolve_parents(documents, top_chunks)]
    /\ UNCHANGED <<chunk_vars, documents, doc_embeddings, queue_vars>>

\* one list of top chunks is resolved in a behaviour
NextResolve ==
    /\ call = NotCalled
    /\ \E top_chunks \in TopChunks : ResolveParents(top_chunks)

SpecResolve == InitResolve /\ [][NextResolve]_vars

\* the top chunks of a call whose parent is id
Contributing(top_chunks, id) ==
    {i \in 1..Len(top_chunks) : top_chunks[i].chunk.parent_id = id}

\* C23: every parent of a top chunk is emitted exactly once and no other
\* parent is emitted; the result of a parent carries the parent's content,
\* the highest score of the top chunks of that parent, and the id of a top
\* chunk of that parent that has this score.
C23_ParentOnceWithMax ==
    (call # NotCalled /\ call.op = "resolve_parents") =>
        LET top_chunks == call.top_chunks
            results == call.results
        IN  /\ \A i \in 1..Len(top_chunks) :
                  Cardinality({k \in 1..Len(results) :
                      results[k].parent_id = top_chunks[i].chunk.parent_id}) = 1
            /\ \A k \in 1..Len(results) :
                  LET from == Contributing(top_chunks, results[k].parent_id)
                  IN  /\ from # {}
                      /\ \A i \in from : RatLE(top_chunks[i].score, results[k].score)
                      /\ \E i \in from :
                            /\ top_chunks[i].chunk.id = results[k].chunk_id
                            /\ RatEQ(top_chunks[i].score, results[k].score)
                      /\ \E d \in 1..Len(documents) :
                            /\ documents[d].id = results[k].parent_id
                            /\ documents[d].content = results[k].content

\* chunks c1 and c2 of one parent with the scores 0.7 and 0.9 were resolved
\* to one result for the parent, with the score 0.9 and the chunk c2
C23_Witness ==
    /\ call # NotCalled
    /\ call.op = "resolve_parents"
    /\ Len(call.top_chunks) = 2
    /\ call.top_chunks[1].chunk.id = "chunk_1"
    /\ call.top_chunks[1].score = Rat(7, 10)
    /\ call.top_chunks[2].chunk.id = "chunk_2"
    /\ call.top_chunks[2].score = Rat(9, 10)
    /\ Len(call.results) = 1
    /\ call.results[1].parent_id = "doc_001"
    /\ call.results[1].chunk_id = "chunk_2"
    /\ call.results[1].score = Rat(9, 10)

(***************************************************************************)
(* The session specification: one retriever of one of the three patterns   *)
(* is built over a corpus and then answers up to MaxCalls queries, one     *)
(* after the other.  call holds the class of the retriever and the log of  *)
(* the calls made so far, each with its arguments and what it returned.    *)
(* No method of the three retrievers assigns to self.documents or          *)
(* self.doc_embeddings or calls a mutating method on them: the lists they  *)
(* sort and slice are the local lists results, vector_results,             *)
(* reranked_results, filtered_docs and all_docs.                           *)
(***************************************************************************)
MaxCalls == 2

SessionDocs_03 == <<DocPool_03[1], DocPool_03[2], DocPool_03[4]>>
SessionDocs_04 == <<DocPool_04[1], DocPool_04[2], DocPool_04[3]>>
SessionDocs_05 == <<DocPool_05[1], DocPool_05[2], DocPool_05[3]>>

SessionQueries_03 ==
    {<<"r", "a", "g", " ", "l", "l", "m">>,
     <<"R", "e", "r", "a", "n", "k", " ", "s", "e", "a", "r", "c", "h", " ", "r", "e", "s", "u", "l", "t", "s">>}
SessionQueries_04 ==
    {<<"a", "p", "i">>,
     <<"p", "y", "t", "h", "o", "n", " ", "g", "u", "i", "d", "e">>}
SessionQueries_05 ==
    {<<"a", "s", "y", "n", "c", "i", "o", " ", "l", "o", "o", "p", " ", "a", "n", "d", " ", "t", "h", "r", "e", "a", "d", "i", "n", "g">>,
     <<"t", "h", "r", "e", "a", "d", "i", "n", "g", " ", "c", "p", "u">>}
SessionFilters == {<<>>, "version" :> Literal(2)}

Built(retriever) == [retriever |-> retriever, log |-> <<>>]

InitSession ==
    /\ NoQueue
    /\ NoChunking
    /\ \/ /\ documents \in Corpora(SessionDocs_03)
          /\ doc_embeddings = init_embeddings_03(documents)
          /\ call = Built("ReRankingRetriever")
       \/ /\ documents \in Corpora(SessionDocs_04)
          /\ doc_embeddings = init_embeddings_04(documents)
          /\ call = Built("FilteredRetriever")
       \/ /\ documents \in Corpora(SessionDocs_05)
          /\ doc_embeddings = init_embeddings_05(documents)
          /\ call = Built("QueryDecompositionRetriever")

\* a method returns: the call is logged, the fields of the retriever stay
Return(op, args, value) ==
    /\ call' = [call EXCEPT !.log = Append(@, [op |-> op, args |-> args,
                                               value |-> value])]
    /\ UNCHANGED <<chunk_vars, documents, doc_embeddings, queue_vars>>

\* retrieve_vector_only sorting self.documents in place by the similarity
SessionRetrieveVectorOnlyInPlace(query, top_k) ==
    LET results == sort_reverse(score_documents(documents, doc_embeddings,
                                                embed(query)))
    IN  /\ call.retriever = "ReRankingRetriever"
        /\ call' = [call EXCEPT !.log =
                       Append(@, [op |-> "retrieve_vector_only",
                                  args |-> <<query, top_k>>,
                                  value |-> slice_to(results, top_k)])]
        /\ documents' = [i \in 1..Len(results) |-> results[i].doc]
        /\ UNCHANGED <<chunk_vars, doc_embeddings, queue_vars>>

SessionRetrieveVectorOnly(query, top_k) ==
    /\ call.retriever = "ReRankingRetriever"
    /\ Return("retrieve_vector_only", <<query, top_k>>,
              retrieve_vector_only(documents, doc_embeddings, query, top_k))

SessionRetrieveWithReranking(query, top_k, candidate_multiplier) ==
    /\ call.retriever = "ReRankingRetriever"
    /\ Return("retrieve_with_reranking", <<query, top_k, candidate_multiplier>>,
              retrieve_with_reranking(documents, doc_embeddings, query, top_k,
                                      candidate_multiplier))

SessionRetrieveUnfiltered(query, top_k) ==
    /\ call.retriever = "FilteredRetriever"
    /\ Return("retrieve_unfiltered", <<query, top_k>>,
              retrieve_unfiltered(documents, doc_embeddings, query, top_k))

SessionRetrieveFiltered(query, filters, top_k) ==
    /\ call.retriever = "FilteredRetriever"
    /\ Return("retrieve_filtered", <<query, filters, top_k>>,
              retrieve_filtered(documents, doc_embeddings, query, filters, top_k))

SessionRetrieveSingle(query, top_k) ==
    /\ call.retriever = "QueryDecompositionRetriever"
    /\ Return("retrieve_single", <<query, top_k>>,
              retrieve_single(documents, doc_embeddings, query, top_k))

SessionRetrieveDecomposed(query, top_k_per_question) ==
    /\ call.retriever = "QueryDecompositionRetriever"
    /\ Return("retrieve_decomposed", <<query, top_k_per_question>>,
              retrieve_decomposed(documents, doc_embeddings, query,
                                  top_k_per_question))

NextSession ==
    /\ Len(call.log) < MaxCalls
    /\ \/ \E query \in SessionQueries_03 :
              SessionRetrieveVectorOnly(query, MaxTopK)
       \/ \E query \in SessionQueries_03 :
              SessionRetrieveWithReranking(query, MaxTopK, MaxMultiplier)
       \/ \E query \in SessionQueries_04 :
              SessionRetrieveUnfiltered(query, MaxTopK)
       \/ \E query \in SessionQueries_04, filters \in SessionFilters :
              SessionRetrieveFiltered(query, filters, MaxTopK)
       \/ \E query \in SessionQueries_05 :
              SessionRetrieveSingle(query, MaxTopK)
       \/ \E query \in SessionQueries_05 :
              SessionRetrieveDecomposed(query, MaxTopK)

SpecSession == InitSession /\ [][NextSession]_vars

\* the calls of the log with the same method and arguments returned the same
RepeatedCallsAgree ==
    \A i, j \in 1..Len(call.log) :
        (call.log[i].op = call.log[j].op /\ call.log[i].args = call.log[j].args)
            => call.log[i].value = call.log[j].value

MaxQueryWords == 2
MaxDocParts == 2

ScoreWords ==
    {<<"r", "a", "g">>,
     <<"d", "a", "t", "a">>,
     <<"S", "e", "a", "r", "c", "h">>,
     <<"i">>}

\* the queries of at most n words, one space between two words
RECURSIVE ScoreQueriesOf(_)
ScoreQueriesOf(n) ==
    IF n = 0 THEN {<<>>}
    ELSE LET shorter == ScoreQueriesOf(n - 1)
         IN  shorter \cup ScoreWords \cup
             {q \o <<" ">> \o w : q \in shorter \ {<<>>}, w \in ScoreWords}

ScoreQueries == ScoreQueriesOf(MaxQueryWords)

DocFragments ==
    {<<"r", "a", "g", " ", "d", "a", "t", "a", " ">>,
     <<"d", "a", "t", "a">>,
     <<"s", "e", "a", "r", "c", "h", " ">>,
     <<DottedCapitalI>>,
     <<"x", "y">>}

ScoreDocuments == Concats(DocFragments, MaxDocParts)

Score(query, document) ==
    /\ call' = [op |-> "score", query |-> query, document |-> document,
                value |-> score(query, document)]
    /\ UNCHANGED <<chunk_vars, documents, doc_embeddings, queue_vars>>

\* one pair is scored in a behaviour
NextScore ==
    /\ call = NotCalled
    /\ \E query \in ScoreQueries, document \in ScoreDocuments :
          Score(query, document)

SpecScore == InitDecompose /\ [][NextScore]_vars

RECURSIVE SumOver(_, _)
\* the sum of the numbers of a function with a finite domain
SumOver(f, dom) ==
    IF dom = {} THEN 0
    ELSE LET x == CHOOSE x \in dom : TRUE
         IN  f[x] + SumOver(f, dom \ {x})

\* The raw score of the three signals, in halves: 2 * L for every run of L
\* query words found in the lower-cased document, 0.5 for every occurrence
\* of every query word longer than 3 characters
RawHalves(query, document) ==
    LET doc_lower == str_lower(document)
        words == str_split(str_lower(query))
        found == {r \in (1..Len(words)) \X (1..Len(words)) :
                     /\ r[1] <= r[2]
                     /\ str_contains(doc_lower,
                                     str_join(<<" ">>, SubSeq(words, r[1], r[2])))}
        long == {k \in 1..Len(words) : Len(words[k]) > 3}
    IN  SumOver([r \in found |-> 4 * (r[2] - r[1] + 1)], found)
        + SumOver([k \in long |-> str_count(doc_lower, words[k])], long)

\* raw * (1 + 0.1 * raw / (text_length / 100)) in doubles
Adjusted(raw, text_length) ==
    float_mul(raw,
              float_add(float_one,
                        float_mul(float_div(raw, float_div(float_int(text_length),
                                                           float_int(100))),
                                  float_tenth)))

\* C25: score(query, document) is the raw score of the three signals scaled
\* by 1 + 0.1 * raw / (len(document) / 100) for a non-empty document, and 0
\* for an empty document.
C25_ThreeSignalFormula ==
    (call # NotCalled /\ call.op = "score") =>
        LET raw == float_dyadic(RawHalves(call.query, call.document), 1)
        IN  IF call.document = <<>>
            THEN call.value = float_zero
            ELSE call.value = Adjusted(raw, Len(call.document))

\* The same with the length of the lower-cased document, which is the
\* length the code divides by
C25_FormulaOfLowered ==
    (call # NotCalled /\ call.op = "score") =>
        LET raw == float_dyadic(RawHalves(call.query, call.document), 1)
        IN  IF call.document = <<>>
            THEN call.value = float_zero
            ELSE call.value = Adjusted(raw, Len(str_lower(call.document)))

\* a document with a run of two query words and a long query word was scored
C25_AllSignals ==
    /\ call # NotCalled
    /\ call.op = "score"
    /\ Len(str_split(call.query)) = 2
    /\ RawHalves(call.query, call.document) >= 4 * 4 + 1
    /\ \A k \in 1..Len(call.document) : call.document[k] # DottedCapitalI

(***************************************************************************)
(* The demo's chunker on sentences that a newline and indentation separate *)
(***************************************************************************)
\* text[k] is a "." followed by a newline and indentation, and the sentences
\* on the two sides of that line break are less similar than the threshold
ShiftAcrossNewline(k, th) ==
    /\ k + 2 <= Len(text)
    /\ text[k] = "."
    /\ text[k + 1] = "\n"
    /\ text[k + 2] = " "
    /\ LET before == _split_sentences(SubSeq(text, 1, k))
           after == _split_sentences(SubSeq(text, k + 3, Len(text)))
       IN  /\ before # <<>>
           /\ after # <<>>
           /\ str_endswith(after[1], <<".">>)
           /\ RatLT(demo_calculate_similarity(before[Len(before)], after[1]), th)

\* C26: the demo's chunker puts a document whose sentences end in "." and
\* are separated by a newline and indentation into at least 2 chunks when
\* the sentences across the line break are less similar than the threshold.
C26_NewlineSeparatedChunks ==
    \A th \in DOMAIN demo_runs :
        (\E k \in 1..Len(text) : ShiftAcrossNewline(k, th)) =>
            /\ demo_runs[th].status = "returned"
            /\ Len(demo_runs[th].chunks) >= 2

\* the demo's chunker returned one chunk whose only sentence holds the line
\* break, where the chunker of pattern 01 returned two chunks
C26_OneChunk ==
    \E th \in DOMAIN demo_runs \cap DOMAIN runs :
        /\ \E k \in 1..Len(text) : ShiftAcrossNewline(k, th)
        /\ Len(demo_runs[th].chunks) = 1
        /\ Len(demo_runs[th].chunks[1].sentences) = 1
        /\ Len(runs[th]) = 2

(***************************************************************************)
(* The queue scripts.  generate_demo.py selects a pattern of               *)
(* queue/patterns.json, writes it to outputs/current_pattern.json and      *)
(* marks it 'in-progress'; test_demo.py tests the demo of the current      *)
(* pattern, captures its output and marks the pattern 'completed'.  A      *)
(* pattern is a record with a name and, possibly, a status; the other      *)
(* fields of a pattern (description, difficulty, key_concepts) are only    *)
(* printed.  call is the last run of a script with its exit status.        *)
(***************************************************************************)
MaxPatterns == 3

None == [status |-> "None"]

PatternNames == <<"semantic-chunking", "reranking", "metadata-filtering", "query-decomposition">>

\* the queues of a fresh queue file: each pattern is pending or has no status
FreshQueues(n) ==
    UNION {[1..m -> {"pending", "missing"}] : m \in 0..n}

Pattern(name, status) ==
    IF status = "missing"
    THEN [name |-> name]
    ELSE [name |-> name, status |-> status]

Queue(statuses) ==
    [i \in 1..Len(statuses) |-> Pattern(PatternNames[i], statuses[i])]

\* pattern.get('status', 'pending')
get_status(pattern) ==
    IF "status" \in DOMAIN pattern THEN pattern.status ELSE "pending"

RECURSIVE select_from(_, _)
\* the loop of select_next_pattern from the i-th pattern on
select_from(ps, i) ==
    IF i > Len(ps)
    THEN IF ps # <<>> THEN ps[1] ELSE None
    ELSE IF get_status(ps[i]) = "pending"
         THEN ps[i]
         ELSE select_from(ps, i + 1)

select_next_pattern(ps) == select_from(ps, 1)

\* pattern['status'] = status
set_status(pattern, status) ==
    [f \in DOMAIN pattern \cup {"status"} |->
        IF f = "status" THEN status ELSE pattern[f]]

\* the 'patterns' list that update_pattern_status writes back
update_pattern_status(ps, pattern_name, status) ==
    LET named == {i \in 1..Len(ps) : ps[i].name = pattern_name}
    IN  IF named = {}
        THEN ps
        ELSE LET first == CHOOSE i \in named : \A j \in named : i <= j
             IN  [ps EXCEPT ![first] = set_status(ps[first], status)]

InitQueue ==
    /\ NoChunking
    /\ documents = <<>>
    /\ doc_embeddings = <<>>
    /\ call = NotCalled
    /\ patterns \in {Queue(statuses) : statuses \in FreshQueues(MaxPatterns)}
    /\ current_pattern = NoFile

\* generate_demo.main
GenerateDemo ==
    LET pattern == select_next_pattern(patterns)
    IN  /\ IF pattern = None
           THEN /\ call' = [op |-> "generate_demo", selected |-> None,
                            exit_status |-> 1]
                /\ UNCHANGED queue_vars
           ELSE /\ current_pattern' = pattern
                /\ patterns' = update_pattern_status(patterns, pattern.name,
                                                     "in-progress")
                /\ call' = [op |-> "generate_demo", selected |-> pattern,
                            exit_status |-> 0]
        /\ UNCHANGED <<chunk_vars, documents, doc_embeddings>>

\* What a run of test_demo.py finds: whether demos/<name> exists, whether it
\* holds test_demo.py and demo.py, and the return codes of pytest and of the
\* demo
Envs ==
    {env \in [demo_path : BOOLEAN, test_file : BOOLEAN, pytest : {0, 1},
              demo_file : BOOLEAN, demo : {0, 1}] :
        /\ env.test_file => env.demo_path
        /\ env.demo_file => env.demo_path}

run_tests(env) == env.test_file /\ env.pytest = 0

capture_demo_output(env) == env.demo_file /\ env.demo = 0

\* the run ends with sys.exit(1) after the steps taken, the queue untouched
Exit1(env, steps) ==
    /\ call' = [op |-> "test_demo", env |-> env, steps |-> steps,
                exit_status |-> 1]
    /\ UNCHANGED queue_vars

\* test_demo.main marking the pattern whatever the capture returned
TestDemoUnchecked(env) ==
    /\ IF current_pattern = NoFile \/ ~env.demo_path
       THEN Exit1(env, <<>>)
       ELSE IF ~run_tests(env)
       THEN Exit1(env, <<[step |-> "run_tests", ok |-> FALSE]>>)
       ELSE /\ patterns' = update_pattern_status(patterns, current_pattern.name,
                                                 "completed")
            /\ call' = [op |-> "test_demo", env |-> env,
                        steps |-> <<[step |-> "run_tests", ok |-> TRUE],
                                    [step |-> "capture_demo_output",
                                     ok |-> capture_demo_output(env)]>>,
                        exit_status |-> 0]
            /\ UNCHANGED current_pattern
    /\ UNCHANGED <<chunk_vars, documents, doc_embeddings>>

\* test_demo.main
TestDemo(env) ==
    /\ IF current_pattern = NoFile \/ ~env.demo_path
       THEN Exit1(env, <<>>)
       ELSE IF ~run_tests(env)
       THEN Exit1(env, <<[step |-> "run_tests", ok |-> FALSE]>>)
       ELSE IF ~capture_demo_output(env)
       THEN Exit1(env, <<[step |-> "run_tests", ok |-> TRUE],
                         [step |-> "capture_demo_output", ok |-> FALSE]>>)
       ELSE /\ patterns' = update_pattern_status(patterns, current_pattern.name,
                                                 "completed")
            /\ call' = [op |-> "test_demo", env |-> env,
                        steps |-> <<[step |-> "run_tests", ok |-> TRUE],
                                    [step |-> "capture_demo_output", ok |-> TRUE]>>,
                        exit_status |-> 0]
            /\ UNCHANGED current_pattern
    /\ UNCHANGED <<chunk_vars, documents, doc_embeddings>>

NextQueue ==
    \/ GenerateDemo
    \/ \E env \in Envs : TestDemo(env)

SpecQueue == InitQueue /\ [][NextQueue]_vars

Pending(ps) == {i \in 1..Len(ps) : get_status(ps[i]) = "pending"}

\* C27: select_next_pattern returns the lowest-index pending pattern (a
\* missing status counts as pending), returns the first pattern by starting
\* over only if all patterns are completed, and returns None for an empty
\* queue; generate_demo.main sets the status of exactly that pattern to
\* 'in-progress'.
C27_NextPendingSelected ==
    [][(call' # NotCalled /\ call'.op = "generate_demo") =>
          LET pending == Pending(patterns)
              selected == call'.selected
          IN  /\ patterns = <<>> => selected = None /\ patterns' = patterns
              /\ pending # {} =>
                    \E i \in pending :
                        /\ \A j \in pending : i <= j
                        /\ selected = patterns[i]
                        /\ patterns' = [patterns EXCEPT
                                           ![i] = set_status(patterns[i], "in-progress")]
              /\ (pending = {} /\ patterns # <<>>) =>
                    /\ \A i \in 1..Len(patterns) :
                           get_status(patterns[i]) = "completed"
                    /\ selected = patterns[1]
                    /\ patterns' = [patterns EXCEPT
                                       ![1] = set_status(patterns[1], "in-progress")]
      ]_vars

\* The same with the restart whenever no pattern is pending, which is what
\* the loop of select_next_pattern does
C27_RestartWhenNonePending ==
    [][(call' # NotCalled /\ call'.op = "generate_demo") =>
          LET pending == Pending(patterns)
              selected == call'.selected
          IN  /\ patterns = <<>> => selected = None /\ patterns' = patterns
              /\ pending # {} =>
                    \E i \in pending :
                        /\ \A j \in pending : i <= j
                        /\ selected = patterns[i]
                        /\ patterns' = [patterns EXCEPT
                                           ![i] = set_status(patterns[i], "in-progress")]
              /\ (pending = {} /\ patterns # <<>>) =>
                    /\ selected = patterns[1]
                    /\ patterns' = [patterns EXCEPT
                                       ![1] = set_status(patterns[1], "in-progress")]
      ]_vars

\* generate_demo started over at a completed first pattern while a later
\* pattern was still in progress
C27_RestartedEarly ==
    /\ call # NotCalled
    /\ call.op = "generate_demo"
    /\ Len(patterns) >= 2
    /\ call.selected = Pattern(PatternNames[1], "completed")
    /\ get_status(patterns[1]) = "in-progress"
    /\ get_status(patterns[2]) = "in-progress"

\* C28: a pattern becomes 'completed' only in a run of test_demo on it in
\* which run_tests succeeded and then capture_demo_output succeeded; a run
\* that finds no demo directory, failing tests or a failing capture exits
\* with status 1 and leaves the queue as it was, so a pattern in progress
\* stays in progress.
C28_CompletedOnlyAfterSuccess ==
    /\ [][\A i \in 1..Len(patterns) :
             (get_status(patterns'[i]) = "completed"
                 /\ get_status(patterns[i]) # "completed") =>
                /\ call'.op = "test_demo"
                /\ call'.exit_status = 0
                /\ call'.steps = <<[step |-> "run_tests", ok |-> TRUE],
                                   [step |-> "capture_demo_output", ok |-> TRUE]>>
                /\ current_pattern # NoFile
                /\ current_pattern.name = patterns[i].name]_vars
    /\ [][(call' # NotCalled /\ call'.op = "test_demo"
             /\ (~call'.env.demo_path \/ ~run_tests(call'.env)
                    \/ ~capture_demo_output(call'.env))) =>
             /\ call'.exit_status = 1
             /\ patterns' = patterns]_vars

\* a run of test_demo ended with status 1 on failing capture after passing
\* tests and left the current pattern in progress, after an earlier pattern
\* had been completed
C28_Witness ==
    /\ call # NotCalled
    /\ call.op = "test_demo"
    /\ call.exit_status = 1
    /\ call.steps = <<[step |-> "run_tests", ok |-> TRUE],
                      [step |-> "capture_demo_output", ok |-> FALSE]>>
    /\ Len(patterns) >= 2
    /\ get_status(patterns[1]) = "completed"
    /\ current_pattern # NoFile
    /\ current_pattern.name = patterns[2].name
    /\ get_status(patterns[2]) = "in-progress"

(***************************************************************************)
(* Sentence splitting as a rearrangement of the text                       *)
(***************************************************************************)
\* ' '.join(t.split()): the whitespace-normalised text
Normalised(t) == str_join(<<" ">>, str_split(t))

\* out are sentences of t: joined by single spaces they are the normalised
\* text, and every sentence but the last ends in a terminator
LosesNothing(t, out) ==
    /\ str_join(<<" ">>, out) = Normalised(t)
    /\ \A k \in 1..(Len(out) - 1) :
          /\ out[k] # <<>>
          /\ out[k][Len(out[k])] \in Terminators

\* C29: the sentences that _split_sentences returns, joined by single
\* spaces, are the whitespace-normalised text, and a sentence ends only at a
\* terminator that whitespace followed; a '|' in the text makes no boundary
\* and is kept.
C29_SplitLosesNothing ==
    /\ sentences # NotCalled => LosesNothing(text, sentences.value)
    /\ demo_sentences # NotCalled => LosesNothing(text, demo_sentences.value)

\* the splitter of pattern 01 loses nothing of a text without '|'
C29_WithoutSeparator ==
    (sentences # NotCalled /\ \A i \in 1..Len(text) : text[i] # "|") =>
        LosesNothing(text, sentences.value)

\* a '|' between two letters has made two sentences and is gone
C29_SeparatorRemoved ==
    /\ sentences # NotCalled
    /\ text = <<"a", "|", "a">>
    /\ sentences.value = <<<<"a">>, <<"a">>>>
    /\ demo_sentences # NotCalled
    /\ demo_sentences.value = sentences.value

(***************************************************************************)
(* The filter stage without conditions                                     *)
(***************************************************************************)
\* C30: with an empty FilterSpec matches accepts every metadata map, and
\* retrieve_filtered returns all documents as the filtered subset and the
\* ranked list that retrieve_unfiltered returns for the same query and top_k.
C30_EmptyFilterIsIdentity ==
    (call # NotCalled /\ call.op = "retrieve_filtered"
        /\ DOMAIN call.filters = {}) =>
        /\ matches(<<>>, call.filters)
        /\ \A i \in 1..Len(documents) :
              matches(documents[i].metadata, call.filters)
        /\ call.value.filtered_docs = documents
        /\ call.value.results =
              retrieve_unfiltered(documents, doc_embeddings, call.query,
                                  call.top_k)

\* an empty FilterSpec was used on documents of different metadata, and the
\* ranked list is not in the order of the index
C30_Witness ==
    /\ call # NotCalled
    /\ call.op = "retrieve_filtered"
    /\ DOMAIN call.filters = {}
    /\ Len(call.value.filtered_docs) >= 2
    /\ Len(call.value.results) >= 2
    /\ call.value.results[1].doc = documents[2]
    /\ documents[1].metadata # documents[2].metadata
    /\ \E key \in DOMAIN documents[1].metadata :
          key \notin DOMAIN documents[2].metadata

====
